---- MODULE Spec2Model ----
(***************************************************************************)
(* Media acquisition-and-normalization pipeline of MarkoDownloadBot.        *)
(*                                                                         *)
(* Strings of the program are sequences of tokens (a token is a character  *)
(* or an indivisible chunk of characters); string operations of the Go     *)
(* standard library are operators over such sequences.                     *)
(***************************************************************************)
EXTENDS Integers, Sequences, FiniteSets, TLC

(***************************************************************************)
(* Bounds of the model.                                                    *)
(***************************************************************************)
\* number of requests handled in the pipeline specifications
NumRequests == 1

\* number of requests in flight on one working directory in SpecConcurrent
NumConcurrent == 2

Requests == 1..NumRequests

AllRequests == 1..NumConcurrent

(***************************************************************************)
(* strings / path/filepath helpers                                         *)
(***************************************************************************)
\* the lower-case form of a token of the model's alphabet
LowerToken(t) ==
    CASE t = "AV01" -> "av01"
      [] t = "Av01" -> "av01"
      [] t = "VP9" -> "vp9"
      [] t = "Vp9" -> "vp9"
      [] t = "VP09" -> "vp09"
      [] OTHER -> t

\* the lower-case form of a string
ToLower(s) == [i \in 1..Len(s) |-> LowerToken(s[i])]

\* strings.HasPrefix
HasPrefix(s, p) == Len(s) >= Len(p) /\ SubSeq(s, 1, Len(p)) = p

\* strings.Contains
Contains(s, sub) ==
    \E i \in 0..(Len(s) - Len(sub)) : SubSeq(s, i + 1, i + Len(sub)) = sub

\* the tokens that are file extensions (they begin with the final dot)
ExtTokens == {".mp4", ".mp3", ".json"}

\* filepath.Ext: the suffix beginning at the final dot, empty if there is none
Ext(name) ==
    IF Len(name) > 0 /\ name[Len(name)] \in ExtTokens
    THEN <<name[Len(name)]>> ELSE <<>>

\* strings.TrimSuffix
TrimSuffix(s, suf) ==
    IF Len(suf) <= Len(s) /\ SubSeq(s, Len(s) - Len(suf) + 1, Len(s)) = suf
    THEN SubSeq(s, 1, Len(s) - Len(suf)) ELSE s

\* uuid.New().String(): an 8-character head and the remainder, per request
randomNameOf(r) == <<"uuid8-" \o ToString(r), "-rest-" \o ToString(r)>>

\* randomName[:8]
ShortId(randomName) == SubSeq(randomName, 1, 1)

(***************************************************************************)
(* sanitizeFileName                                                        *)
(***************************************************************************)
\* the control characters (code point < 32) of the model's alphabet
ControlChars == {"\t", "\n"}

\* replacements map: the characters replaced by '-'
DashChars == {"/", "\\", "<", ">", ":", "\"", "|"}

\* replacements map: the characters mapped to 0 (dropped)
DroppedChars == {"?", "*"}

\* len(sanitized) > 100, sanitized[:100]
TruncateLen == 100

\* lastSpace > 70
WordBoundaryMin == 70

\* a loop that writes '-' for every mapped character
CleanRunesAllDashed(s) ==
    LET kept == SelectSeq(s, LAMBDA c : c \notin ControlChars)
    IN  [i \in 1..Len(kept) |->
            IF kept[i] \in DashChars \cup DroppedChars THEN "-" ELSE kept[i]]

\* the per-rune loop: drop control characters, replace or drop the mapped ones
CleanRunes(s) ==
    LET kept == SelectSeq(s, LAMBDA c : c \notin ControlChars /\ c \notin DroppedChars)
    IN  [i \in 1..Len(kept) |-> IF kept[i] \in DashChars THEN "-" ELSE kept[i]]

\* strings.TrimLeft(s, cutset)
RECURSIVE TrimLeft(_, _)
TrimLeft(s, cutset) ==
    IF s # <<>> /\ Head(s) \in cutset THEN TrimLeft(Tail(s), cutset) ELSE s

\* strings.TrimRight(s, cutset)
RECURSIVE TrimRight(_, _)
TrimRight(s, cutset) ==
    IF s # <<>> /\ s[Len(s)] \in cutset
    THEN TrimRight(SubSeq(s, 1, Len(s) - 1), cutset) ELSE s

\* strings.Trim(s, cutset)
Trim(s, cutset) == TrimRight(TrimLeft(s, cutset), cutset)

\* strings.ReplaceAll(s, "  ", " "): non-overlapping matches, left to right,
\* so of a run of spaces the first, third, fifth, ... stay
ReplaceDoubleSpace(s) ==
    LET before(i) == CHOOSE j \in 0..(i - 1) :
                         /\ j = 0 \/ s[j] # " "
                         /\ \A k \in (j + 1)..(i - 1) : s[k] = " "
        marked == [i \in 1..Len(s) |->
                      [c |-> s[i],
                       keep |-> s[i] # " " \/ (i - before(i)) % 2 = 1]]
        kept == SelectSeq(marked, LAMBDA m : m.keep)
    IN  [i \in 1..Len(kept) |-> kept[i].c]

\* for strings.Contains(sanitized, "  ") { sanitized = ReplaceAll(...) }
RECURSIVE CollapseSpaces(_)
CollapseSpaces(s) ==
    IF Contains(s, <<" ", " ">>) THEN CollapseSpaces(ReplaceDoubleSpace(s)) ELSE s

\* strings.LastIndex(s, " "): 0-based index of the last space, -1 if none
LastIndexSpace(s) ==
    IF \E i \in 1..Len(s) : s[i] = " "
    THEN (CHOOSE i \in 1..Len(s) :
              s[i] = " " /\ \A j \in (i + 1)..Len(s) : s[j] # " ") - 1
    ELSE -1

\* the truncation block
Truncate(s) ==
    IF Len(s) > TruncateLen
    THEN LET truncated == SubSeq(s, 1, TruncateLen)
             lastSpace == LastIndexSpace(truncated)
         IN  IF lastSpace > WordBoundaryMin
             THEN SubSeq(truncated, 1, lastSpace)
             ELSE truncated
    ELSE s

\* the white space strings.TrimSpace strips, as UTF-8 byte sequences: the
\* space and the no-break space U+00A0 (the control characters are gone by
\* then)
WhiteSpace == {<<" ">>, <<"C2", "A0">>}

\* strings.TrimSpace(s): whole white-space characters are stripped from both
\* ends; a byte that is only a part of one stays
RECURSIVE TrimSpace(_)
TrimSpace(s) ==
    IF \E w \in WhiteSpace : HasPrefix(s, w)
    THEN TrimSpace(SubSeq(s, 1 + Len(CHOOSE w \in WhiteSpace : HasPrefix(s, w)),
                          Len(s)))
    ELSE IF \E w \in WhiteSpace :
                Len(s) >= Len(w) /\ SubSeq(s, Len(s) - Len(w) + 1, Len(s)) = w
    THEN TrimSpace(SubSeq(s, 1,
             Len(s) - Len(CHOOSE w \in WhiteSpace :
                              Len(s) >= Len(w)
                              /\ SubSeq(s, Len(s) - Len(w) + 1, Len(s)) = w)))
    ELSE s

\* a sanitizer that falls back to a fixed name
sanitizeFileNameWithDefault(title) ==
    LET sanitized ==
            TrimSpace(Truncate(CollapseSpaces(Trim(CleanRunes(title), {" ", "."}))))
    IN  IF title = <<>> \/ sanitized = <<>> THEN <<"untitled">> ELSE sanitized

\* sanitizeFileName: the empty sequence is the "cannot be sanitized" result
sanitizeFileName(title) ==
    IF title = <<>> THEN <<>>
    ELSE TrimSpace(Truncate(CollapseSpaces(Trim(CleanRunes(title), {" ", "."}))))

(***************************************************************************)
(* strconv and CustomDuration.UnmarshalJSON                                *)
(***************************************************************************)
Digits == {"0", "1", "2", "3", "4", "5", "6", "7", "8", "9"}

DigitVal(c) ==
    CASE c = "0" -> 0 [] c = "1" -> 1 [] c = "2" -> 2 [] c = "3" -> 3
      [] c = "4" -> 4 [] c = "5" -> 5 [] c = "6" -> 6 [] c = "7" -> 7
      [] c = "8" -> 8 [] c = "9" -> 9

RECURSIVE DecimalVal(_)
DecimalVal(s) ==
    IF s = <<>> THEN 0
    ELSE DecimalVal(SubSeq(s, 1, Len(s) - 1)) * 10 + DigitVal(s[Len(s)])

\* a conversion that reads the empty string as 0
AtoiEmptyIsZero(s) ==
    LET signed == s # <<>> /\ Head(s) \in {"+", "-"}
        body == IF signed THEN Tail(s) ELSE s
    IN  IF \E i \in 1..Len(body) : body[i] \notin Digits
        THEN [ok |-> FALSE, val |-> 0]
        ELSE [ok |-> TRUE,
              val |-> IF signed /\ Head(s) = "-"
                      THEN 0 - DecimalVal(body) ELSE DecimalVal(body)]

\* strconv.Atoi / strconv.ParseInt(s, 10, 64): an optional sign, then one or
\* more decimal digits
Atoi(s) ==
    LET signed == s # <<>> /\ Head(s) \in {"+", "-"}
        body == IF signed THEN Tail(s) ELSE s
    IN  IF body = <<>> \/ \E i \in 1..Len(body) : body[i] \notin Digits
        THEN [ok |-> FALSE, val |-> 0]
        ELSE [ok |-> TRUE,
              val |-> IF signed /\ Head(s) = "-"
                      THEN 0 - DecimalVal(body) ELSE DecimalVal(body)]

\* strings.Split(v, ":")
RECURSIVE SplitColon(_)
SplitColon(s) ==
    IF \A i \in 1..Len(s) : s[i] # ":" THEN <<s>>
    ELSE LET k == CHOOSE i \in 1..Len(s) :
                      s[i] = ":" /\ \A j \in 1..(i - 1) : s[j] # ":"
         IN  <<SubSeq(s, 1, k - 1)>> \o SplitColon(SubSeq(s, k + 1, Len(s)))

\* a codec that reads two parts as hours and minutes
UnmarshalDurationHoursFirst(v) ==
    LET parts == SplitColon(v)
        n == [i \in 1..Len(parts) |-> Atoi(parts[i])]
        allOk == \A i \in 1..Len(parts) : n[i].ok
    IN  IF Len(parts) \notin {1, 2, 3} \/ ~allOk
        THEN [ok |-> FALSE, seconds |-> 0]
        ELSE [ok |-> TRUE,
              seconds |->
                  CASE Len(parts) = 1 -> n[1].val
                    [] Len(parts) = 2 -> n[1].val * 3600 + n[2].val * 60
                    [] Len(parts) = 3 ->
                           n[1].val * 3600 + n[2].val * 60 + n[3].val]

\* CustomDuration.UnmarshalJSON on a JSON string v
UnmarshalDuration(v) ==
    LET parts == SplitColon(v)
        n == [i \in 1..Len(parts) |-> Atoi(parts[i])]
        allOk == \A i \in 1..Len(parts) : n[i].ok
    IN  IF Len(parts) \notin {1, 2, 3} \/ ~allOk
        THEN [ok |-> FALSE, seconds |-> 0]
        ELSE [ok |-> TRUE,
              seconds |->
                  CASE Len(parts) = 1 -> n[1].val
                    [] Len(parts) = 2 -> n[1].val * 60 + n[2].val
                    [] Len(parts) = 3 ->
                           n[1].val * 3600 + n[2].val * 60 + n[3].val]

(***************************************************************************)
(* codec policy                                                            *)
(***************************************************************************)
\* a policy that misses the short vp9 tag
needsVideoConversionNoVp9(vcodec, codecName) ==
    \/ HasPrefix(codecName, <<"av01">>)
    \/ HasPrefix(codecName, <<"vp09">>)
    \/ HasPrefix(vcodec, <<"av01">>)
    \/ HasPrefix(vcodec, <<"vp09">>)

\* a policy that looks at the probed tag only
needsVideoConversionTagOnly(vcodec, codecName) ==
    \/ HasPrefix(codecName, <<"av01">>)
    \/ HasPrefix(codecName, <<"vp9">>)
    \/ HasPrefix(codecName, <<"vp09">>)

\* needsVideoConversion: codecName is the probed tag, vcodec is Media.VCodec
needsVideoConversion(vcodec, codecName) ==
    \/ HasPrefix(codecName, <<"av01">>)
    \/ HasPrefix(codecName, <<"vp9">>)
    \/ HasPrefix(codecName, <<"vp09">>)
    \/ HasPrefix(vcodec, <<"av01">>)
    \/ HasPrefix(vcodec, <<"vp09">>)

\* a policy that matches the codec names anywhere in the tag
needsAudioConversionContains(codecName) ==
    \/ Contains(codecName, <<"opus">>)
    \/ Contains(codecName, <<"vorbis">>)
    \/ Contains(codecName, <<"flac">>)

\* needsAudioConversion
needsAudioConversion(codecName) ==
    IF codecName = <<"aac">> THEN FALSE
    ELSE IF codecName = <<"opus">> THEN TRUE
    ELSE IF codecName = <<"vorbis">> THEN TRUE
    ELSE IF codecName = <<"flac">> THEN TRUE
    ELSE FALSE

(***************************************************************************)
(* stream selection                                                        *)
(***************************************************************************)
\* parseBitrate: 0 for the empty or a non-numeric field
parseBitrate(bitrateStr) ==
    IF bitrateStr = <<>> THEN 0
    ELSE IF Atoi(bitrateStr).ok THEN Atoi(bitrateStr).val ELSE 0

\* a comparison that also prefers the later of two equal streams
isVideoStreamBetterOrEqual(stream1, stream2) ==
    LET resolution1 == stream1.Width * stream1.Height
        resolution2 == stream2.Width * stream2.Height
    IN  IF resolution1 # resolution2 THEN resolution1 > resolution2
        ELSE parseBitrate(stream1.BitRate) >= parseBitrate(stream2.BitRate)

\* isVideoStreamBetter(stream1, stream2)
isVideoStreamBetter(stream1, stream2) ==
    LET resolution1 == stream1.Width * stream1.Height
        resolution2 == stream2.Width * stream2.Height
    IN  IF resolution1 # resolution2 THEN resolution1 > resolution2
        ELSE parseBitrate(stream1.BitRate) > parseBitrate(stream2.BitRate)

\* isAudioStreamBetter(stream1, stream2)
isAudioStreamBetter(stream1, stream2) ==
    IF stream1.Channels # stream2.Channels
    THEN stream1.Channels > stream2.Channels
    ELSE parseBitrate(stream1.BitRate) > parseBitrate(stream2.BitRate)

\* a collection loop without the codec_type test
StreamsOfAnyType(streams, type) == streams

\* the streams of one codec_type, in probe order
StreamsOfType(streams, type) == SelectSeq(streams, LAMBDA st : st.CodecType = type)

\* the "bestStream" fold of the selectors over streams[from..], video
RECURSIVE FoldBestVideo(_, _, _)
FoldBestVideo(streams, from, best) ==
    IF from > Len(streams) THEN best
    ELSE FoldBestVideo(streams, from + 1,
             IF isVideoStreamBetter(streams[from], best)
             THEN streams[from] ELSE best)

\* the "bestStream" fold of the selectors over streams[from..], audio
RECURSIVE FoldBestAudio(_, _, _)
FoldBestAudio(streams, from, best) ==
    IF from > Len(streams) THEN best
    ELSE FoldBestAudio(streams, from + 1,
             IF isAudioStreamBetter(streams[from], best)
             THEN streams[from] ELSE best)

\* a nil *FFProbeStream
NoStream == [Index |-> -1]

\* a selector that keeps the last default stream it sees
LastDefault(streams) ==
    streams[CHOOSE i \in 1..Len(streams) :
                streams[i].Default = 1
                /\ \A j \in (i + 1)..Len(streams) : streams[j].Default # 1]

\* the first stream of the list with disposition.default == 1
FirstDefault(streams) ==
    streams[CHOOSE i \in 1..Len(streams) :
                streams[i].Default = 1
                /\ \A j \in 1..(i - 1) : streams[j].Default # 1]

\* selectBestVideoStream
selectBestVideoStream(streams) ==
    LET videoStreams == StreamsOfType(streams, "video")
    IN  IF Len(videoStreams) = 0 THEN NoStream
        ELSE IF \E i \in 1..Len(videoStreams) : videoStreams[i].Default = 1
        THEN FirstDefault(videoStreams)
        ELSE FoldBestVideo(videoStreams, 2, videoStreams[1])

\* selectBestAudioStream
selectBestAudioStream(streams) ==
    LET audioStreams == StreamsOfType(streams, "audio")
    IN  IF Len(audioStreams) = 0 THEN NoStream
        ELSE IF \E i \in 1..Len(audioStreams) : audioStreams[i].Default = 1
        THEN FirstDefault(audioStreams)
        ELSE FoldBestAudio(audioStreams, 2, audioStreams[1])

(***************************************************************************)
(* URLs and the fetch argument list                                        *)
(***************************************************************************)
\* a request URL as url.Parse returns it: err, Scheme, Host, Path
MkURL(perr, scheme, host, path) ==
    [err |-> perr, Scheme |-> scheme, Host |-> host, Path |-> path]

YouTubeWatch == MkURL(FALSE, <<"https">>, <<"www", ".", "youtube", ".", "com">>, <<"/", "watch">>)
YouTubeShorts == MkURL(FALSE, <<"https">>, <<"www", ".", "youtube", ".", "com">>, <<"/", "shorts", "/", "x">>)
YouTubeBare == MkURL(FALSE, <<"https">>, <<"youtube", ".", "com">>, <<"/", "watch">>)
YouTuBe == MkURL(FALSE, <<"https">>, <<"youtu", ".", "be">>, <<"/", "x">>)
MobileYouTube == MkURL(FALSE, <<"https">>, <<"m", ".", "youtube", ".", "com">>, <<"/", "watch">>)
TikTok == MkURL(FALSE, <<"https">>, <<"www", ".", "tiktok", ".", "com">>, <<"/", "@user", "/", "video">>)
TikTokShort == MkURL(FALSE, <<"https">>, <<"vm", ".", "tiktok", ".", "com">>, <<"/", "x">>)
Generic == MkURL(FALSE, <<"https">>, <<"example", ".", "com">>, <<"/", "video", ".mp4">>)
GenericShorts == MkURL(FALSE, <<"https">>, <<"example", ".", "com">>, <<"/", "shorts">>)
NoScheme == MkURL(FALSE, <<>>, <<>>, <<"example", ".", "com", "/", "video">>)
NoHost == MkURL(FALSE, <<"https">>, <<>>, <<>>)
Unparsable == MkURL(TRUE, <<>>, <<>>, <<>>)

ValidURLs == {YouTubeWatch, YouTubeShorts, YouTubeBare, YouTuBe, MobileYouTube,
              TikTok, TikTokShort, Generic, GenericShorts}

InvalidURLs == {NoScheme, NoHost, Unparsable}

\* the text of a URL, as it is passed on the command line
URLString(u) ==
    (IF u.Scheme # <<>> THEN u.Scheme \o <<"://">> ELSE <<>>) \o u.Host \o u.Path

\* a validation that forgets the host
InvalidURLNoHostCheck(u) == u.err \/ u.Scheme = <<>>

\* err != nil || u.Scheme == "" || u.Host == ""
InvalidURL(u) == u.err \/ u.Scheme = <<>> \/ u.Host = <<>>

\* the YouTube host test of getCommandString
IsYouTubeHost(host) ==
    \/ host = <<"www", ".", "youtube", ".", "com">>
    \/ host = <<"youtube", ".", "com">>
    \/ host = <<"youtu", ".", "be">>

\* a format block that does not look at the path
YouTubeFormatArgsAnyPath(audioOnly, u, simplified) ==
    IF IsYouTubeHost(u.Host) /\ ~audioOnly /\ ~simplified
    THEN << <<"-f">>, <<"bv[filesize<=1700M]+ba[filesize<=300M]">>,
            <<"-S">>, <<"ext,res:720">> >>
    ELSE <<>>

\* the block of getCommandString that adds the YouTube -f and -S arguments
YouTubeFormatArgs(audioOnly, u, simplified) ==
    IF IsYouTubeHost(u.Host)
       /\ ~audioOnly /\ ~Contains(u.Path, <<"shorts">>) /\ ~simplified
    THEN << <<"-f">>, <<"bv[filesize<=1700M]+ba[filesize<=300M]">>,
            <<"-S">>, <<"ext,res:720">> >>
    ELSE <<>>

\* the block of getCommandString that adds the TikTok -f argument
TikTokFormatArgs(u, simplified) ==
    IF Contains(u.Host, <<"tiktok", ".", "com">>)
    THEN << <<"-f">>, <<"b[url!^=\"https://www.tiktok.com/\"]">> >>
    ELSE <<>>

\* getCommandString(simplified): a list of strings
getCommandString(audioOnly, u, tmpDir, randomName, cookiesFile, simplified) ==
    << <<"yt-dlp">> >>
    \o (IF audioOnly
        THEN << <<"-x">>, <<"--audio-format">>, <<"mp3">> >>
        ELSE << <<"--recode-video">>, <<"mp4">> >>)
    \o << <<"--write-info-json">> >>
    \o YouTubeFormatArgs(audioOnly, u, simplified)
    \o TikTokFormatArgs(u, simplified)
    \o << <<"-o">>, tmpDir \o <<"/">> \o randomName \o <<".%(ext)s">>,
          URLString(u) >>
    \o (IF cookiesFile # <<>> THEN << <<"--cookies">>, cookiesFile >> ELSE <<>>)

\* the working directory
TmpDir == <<"tmp">>

\* filepath.Join(dir, name)
Join(dir, name) == dir \o <<"/">> \o name

(***************************************************************************)
(* errors                                                                  *)
(***************************************************************************)
\* a nil error
NoErr == [msg |-> "nil"]

\* errors.New / fmt.Errorf without %w
NewErr(msg) == [msg |-> msg, cause |-> NoErr]

\* fmt.Errorf(msg + ": %w", err)
Wrap(msg, err) == [msg |-> msg, cause |-> err]

\* the error of run number n of an external tool (an *exec.ExitError or *exec.Error)
ToolErr(what, n) == [msg |-> what, run |-> n]

\* the errors an error carries: itself and everything it wraps
RECURSIVE Chain(_)
Chain(e) ==
    IF e = NoErr THEN {}
    ELSE IF "cause" \in DOMAIN e THEN {e} \cup Chain(e.cause)
    ELSE {e}

(***************************************************************************)
(* the working directory: a function from the paths that exist to the      *)
(* file's content, [owner: the request whose tool or rename put it there,  *)
(* kind: what it holds]                                                    *)
(***************************************************************************)
Exists(fs, path) == path \in DOMAIN fs

\* a tool creates or overwrites path
WriteFile(fs, path, content) ==
    [p \in DOMAIN fs \cup {path} |-> IF p = path THEN content ELSE fs[p]]

\* a removal that leaves the file where it is
KeepFile(fs, path) == fs

\* os.Remove on a path that exists
RemoveFile(fs, path) == [p \in DOMAIN fs \ {path} |-> fs[p]]

\* os.Rename(old, new) on an old path that exists: new is replaced if it exists
RenameFile(fs, old, new) ==
    [p \in (DOMAIN fs \ {old}) \cup {new} |-> IF p = new THEN fs[old] ELSE fs[p]]

(***************************************************************************)
(* inputs of the model                                                     *)
(***************************************************************************)
\* the URLs requests of the pipeline arrive with
RequestURLs == {YouTubeWatch, NoHost, NoScheme, Unparsable}

\* cookiesFile of handleDownload: COOKIES_FILE or the default, never empty
CookiesFile == <<"/app/cookies.txt">>

\* what the fetch tool can leave in {id}.info.json; json |-> FALSE is a
\* document encoding/json cannot decode
MkSidecar(vcodec, acodec, title, dur) ==
    [json |-> TRUE, width |-> 1280, height |-> 720, duration_string |-> dur,
     vcodec |-> vcodec, acodec |-> acodec, title |-> title]

GoodTitle == <<"a", ":", "b">>

Sidecars ==
    { MkSidecar(<<"avc1", ".64001F">>, <<"mp4a", ".40.2">>, GoodTitle, <<"5", ":", "3", "0">>),
      MkSidecar(<<"vp09", ".00.40.08">>, <<"opus">>, GoodTitle, <<"3", "0">>),
      MkSidecar(<<"av01", ".0.08M.08">>, <<"mp4a", ".40.2">>, <<>>, <<"0">>),
      MkSidecar(<<"avc1", ".64001F">>, <<"opus">>, <<"?", "\t", ".">>, <<"1", ":", "0", ":", "0">>),
      MkSidecar(<<"avc1", ".64001F">>, <<"mp4a", ".40.2">>, GoodTitle, <<"a", "b", "c">>),
      [json |-> FALSE] }

\* one stream of a probe report
MkStream(index, type, codec, bitrate, w, h, ch, def) ==
    [Index |-> index, CodecType |-> type, CodecName |-> codec, BitRate |-> bitrate,
     Width |-> w, Height |-> h, Channels |-> ch, Default |-> def]

\* what the probe tool can report: format.bit_rate and the streams
ProbeReports ==
    { [BitRate |-> <<"9", "0", "0">>,
       Streams |-> << MkStream(0, "video", <<"h264">>, <<"8", "0", "0">>, 1280, 720, 0, 1),
                      MkStream(1, "audio", <<"aac">>, <<"1", "0", "0">>, 0, 0, 2, 1) >>],
      [BitRate |-> <<"N/A">>,
       Streams |-> << MkStream(0, "video", <<"vp9">>, <<>>, 1920, 1080, 0, 0),
                      MkStream(1, "video", <<"h264">>, <<"8", "0", "0">>, 1280, 720, 0, 0),
                      MkStream(2, "audio", <<"opus">>, <<>>, 0, 0, 2, 0) >>],
      [BitRate |-> <<>>,
       Streams |-> << MkStream(0, "audio", <<"opus">>, <<"6", "4">>, 0, 0, 2, 0) >>],
      [BitRate |-> <<>>, Streams |-> <<>>] }

\* how a run of the probe tool can fail: it cannot be started, it exits
\* non-zero, its output is not the expected JSON
ProbeFailures == {"cannot run", "exit status 1", "malformed output"}

\* the size os.Stat can report for the downloaded file
FileSizes == {10485760}

(***************************************************************************)
(* state                                                                   *)
(***************************************************************************)
VARIABLES
    pc,        \* where each request's handler stands
    media,     \* the Media record of each request
    analysis,  \* the MediaAnalysis of each request
    newName,   \* renameToReadableName's newFileName between Stat and Rename
    files,     \* the working directory
    result,    \* what DownloadMedia returned to handleDownload
    steps,     \* history: the pipeline steps each request has executed
    foreign,   \* history: a file operation hit a file another request put there
    cmd,       \* the argument lists built for one download request
    probe,     \* the streams of one probe report and the selectors' picks
    text,      \* the string handed to UnmarshalJSON and to sanitizeFileName
    bot        \* the bot's admin globals, users table and broadcast in progress

vars == <<pc, media, analysis, newName, files, result, steps, foreign, cmd, probe,
         text, bot>>

\* &Media{tmpDir, url, randomName, user, cookiesFile, audioOnly}
NewMedia(randomName, u, cookiesFile, audioOnly) ==
    [Width |-> 0, Height |-> 0, Duration |-> 0, VCodec |-> <<>>, ACodec |-> <<>>,
     Path |-> <<>>, FileName |-> <<>>, Title |-> <<>>,
     randomName |-> randomName, url |-> u, cookiesFile |-> cookiesFile,
     audioOnly |-> audioOnly]

\* the zero MediaAnalysis
NoAnalysis ==
    [OriginalBitrate |-> 0, OriginalFileSize |-> 0, TargetBitrate |-> 0,
     NeedsVideoConversion |-> FALSE, NeedsAudioConversion |-> FALSE,
     VideoConversionType |-> "", AudioConversionType |-> "",
     OriginalVideoCodec |-> <<>>, OriginalAudioCodec |-> <<>>,
     IsAlreadyCompatible |-> FALSE]

\* no request has arrived
NoMedia == NewMedia(<<>>, Unparsable, <<>>, FALSE)

\* DownloadMedia has not returned
Pending == [ret |-> "pending", err |-> NoErr]

\* return res, nil
Success == [ret |-> "ok", err |-> NoErr]

\* return nil, err
Failure(err) == [ret |-> "err", err |-> err]

\* one entry of the history of steps
Step(name, ok, simplified, target, err) ==
    [step |-> name, ok |-> ok, simplified |-> simplified, target |-> target,
     err |-> err]

\* the file operation of request r on path hits a file another request put there
Foreign(r, path) == Exists(files, path) /\ files[path].owner # r

NoCmd == [built |-> FALSE, audioOnly |-> FALSE, url |-> Unparsable,
          cookiesFile |-> <<>>, full |-> <<>>, simple |-> <<>>]

\* the bot before any update: no admin configured or seen, an empty users
\* table, no broadcast running
NoBot ==
    [adminUsername |-> "", adminChatID |-> 0, users |-> <<>>, chatIDs |-> <<>>,
     at |-> "idle", sendErr |-> [nil |-> TRUE], chatID |-> 0,
     result |-> [Sent |-> 0, Failed |-> 0, BlockedByUser |-> 0, Errors |-> 0],
     outbox |-> <<>>, event |-> "", username |-> "", n |-> 0]

\* no probe report has been handed to the selectors
NoProbe == [Streams |-> <<>>, video |-> NoStream, audio |-> NoStream, done |-> {}]

InitPipeline ==
    /\ pc = [r \in AllRequests |-> "idle"]
    /\ media = [r \in AllRequests |-> NoMedia]
    /\ analysis = [r \in AllRequests |-> NoAnalysis]
    /\ newName = [r \in AllRequests |-> <<>>]
    /\ files = <<>>
    /\ result = [r \in AllRequests |-> Pending]
    /\ steps = [r \in AllRequests |-> <<>>]
    /\ foreign = FALSE

Init == InitPipeline /\ cmd = NoCmd /\ probe = NoProbe /\ text = <<>> /\ bot = NoBot

(***************************************************************************)
(* DownloadMedia: construction and URL validation                          *)
(***************************************************************************)
\* handleDownload calls DownloadMedia, which builds the record and checks the URL
Start(r) ==
    /\ pc[r] = "idle"
    /\ \E u \in RequestURLs, audioOnly \in BOOLEAN :
          /\ media' = [media EXCEPT
                 ![r] = NewMedia(randomNameOf(r), u, CookiesFile, audioOnly)]
          /\ IF InvalidURL(u)
             THEN /\ result' = [result EXCEPT ![r] = Failure(NewErr("invalid URL"))]
                  /\ pc' = [pc EXCEPT ![r] = "end"]
             ELSE /\ result' = result
                  /\ pc' = [pc EXCEPT ![r] = "fetch1"]
    /\ UNCHANGED <<analysis, newName, files, steps, foreign, cmd, probe, text, bot>>

(***************************************************************************)
(* the Downloader                                                          *)
(***************************************************************************)
\* what a run of the fetch tool can do: exit 0 or not, and on exit 0 whether
\* the media file and the sidecar are at the paths the output template names
FetchOutcomes ==
    {[ok |-> FALSE, wroteMedia |-> FALSE, wroteSidecar |-> FALSE]}
    \cup {[ok |-> TRUE, wroteMedia |-> m, wroteSidecar |-> sc] : m, sc \in BOOLEAN}

\* the extension of the downloaded file: --audio-format mp3 or --recode-video mp4
MediaExt(m) == IF m.audioOnly THEN <<".mp3">> ELSE <<".mp4">>

\* {tmpDir}/{randomName}.{ext}, the -o template resolved
DownloadPath(m) == Join(TmpDir, m.randomName \o MediaExt(m))

\* {tmpDir}/{randomName}.info.json
SidecarPath(m) == Join(TmpDir, m.randomName \o <<".info", ".json">>)

\* the working directory after a run of the fetch tool for request r
FetchFiles(r, out) ==
    LET m == media[r]
        f1 == IF out.wroteMedia
              THEN WriteFile(files, DownloadPath(m), [owner |-> r, kind |-> "media"])
              ELSE files
    IN  IF out.wroteSidecar
        THEN WriteFile(f1, SidecarPath(m), [owner |-> r, kind |-> "sidecar"])
        ELSE f1

\* the fetch tool of request r writes over a file of another request
FetchForeign(r, out) ==
    \/ out.wroteMedia /\ Foreign(r, DownloadPath(media[r]))
    \/ out.wroteSidecar /\ Foreign(r, SidecarPath(media[r]))

\* executeDownload(simplified): the error it returns
executeDownloadErr(r, out) ==
    IF out.ok THEN NoErr
    ELSE Wrap("command execution failed with",
              ToolErr("exit status 1", Len(steps[r]) + 1))

\* a DownloadMedia that goes on to the sidecar whatever the first attempt did
AfterFirstAttemptNoRetry(err) == "populate"

\* DownloadMedia after the first attempt: retry on any error
AfterFirstAttempt(err) == IF err # NoErr THEN "fetch2" ELSE "populate"

\* DownloadMedia after the second attempt: give up on any error
AfterSecondAttempt(err) == IF err # NoErr THEN "end" ELSE "populate"

\* a second attempt that repeats the full argument list
SecondAttemptFull == FALSE

\* the argument of the second executeDownload call
SecondAttemptSimplified == TRUE

\* a failure that wraps the error of the first attempt instead
BothAttemptsFailedFirst(err1, err2) == Wrap("both download attempts failed", err1)

\* fmt.Errorf("both download attempts failed: %w", err): err holds the error of
\* the second attempt, the first one was overwritten
BothAttemptsFailed(err1, err2) == Wrap("both download attempts failed", err2)

\* err = res.executeDownload(false)
FirstAttempt(r) ==
    /\ pc[r] = "fetch1"
    /\ \E out \in FetchOutcomes :
          LET err == executeDownloadErr(r, out)
          IN  /\ files' = FetchFiles(r, out)
              /\ steps' = [steps EXCEPT
                     ![r] = Append(@, Step("fetch", out.ok, FALSE, "", err))]
              /\ pc' = [pc EXCEPT ![r] = AfterFirstAttempt(err)]
              /\ foreign' = (foreign \/ FetchForeign(r, out))
    /\ UNCHANGED <<media, analysis, newName, result, cmd, probe, text, bot>>

\* err = res.executeDownload(true), and the return when it fails too
SecondAttempt(r) ==
    /\ pc[r] = "fetch2"
    /\ \E out \in FetchOutcomes :
          LET err == executeDownloadErr(r, out)
              err1 == steps[r][Len(steps[r])].err
          IN  /\ files' = FetchFiles(r, out)
              /\ steps' = [steps EXCEPT
                     ![r] = Append(@, Step("fetch", out.ok, SecondAttemptSimplified,
                                           "", err))]
              /\ pc' = [pc EXCEPT ![r] = AfterSecondAttempt(err)]
              /\ result' = IF AfterSecondAttempt(err) = "end"
                           THEN [result EXCEPT
                                    ![r] = Failure(BothAttemptsFailed(err1, err))]
                           ELSE result
              /\ foreign' = (foreign \/ FetchForeign(r, out))
    /\ UNCHANGED <<media, analysis, newName, cmd, probe, text, bot>>

(***************************************************************************)
(* sidecar metadata ingestion                                              *)
(***************************************************************************)
\* json.Unmarshal(buf, media): the json-tagged fields of the canonical Media
DecodeSidecar(m, sc) ==
    [m EXCEPT !.Width = sc.width, !.Height = sc.height,
              !.Duration = UnmarshalDuration(sc.duration_string).seconds,
              !.VCodec = sc.vcodec, !.ACodec = sc.acodec, !.Title = sc.title]

\* json.Unmarshal fails: no JSON document, or UnmarshalJSON of the duration fails
UndecodableSidecar(sc) ==
    ~sc.json \/ ~UnmarshalDuration(sc.duration_string).ok

\* a DownloadMedia that only logs the failure of populateInfo
IngestFailedLogged(err) == Pending

\* DownloadMedia on a failure of populateInfo
IngestFailed(err) == Failure(Wrap("error populating info", err))

\* DownloadMedia after a successful populateInfo, canonical variant
AfterIngest(m) == "rename"

\* DownloadMedia's return value after populateInfo alone: none yet
ResultAfterIngest(m, res) == res

\* json.Unmarshal(buf, media): the fallback Media has no title field
DecodeSidecarFallback(m, sc) ==
    [m EXCEPT !.Width = sc.width, !.Height = sc.height,
              !.Duration = UnmarshalDuration(sc.duration_string).seconds,
              !.VCodec = sc.vcodec, !.ACodec = sc.acodec]

\* DownloadMedia after renameToReadableName, whatever it returned
AfterRename(m) == IF m.audioOnly THEN "returned" ELSE "analyze"

\* DownloadMedia's return value when the pipeline stops after the rename
ResultAfterRename(m, res) == IF m.audioOnly THEN Success ELSE res

\* res.Path = filepath.Join(tmpDir, randomName + ext), then populateInfo and
\* what DownloadMedia does next; fallback selects the variant without the
\* title field and the rename step
Ingest(r, fallback) ==
    /\ pc[r] = "populate"
    /\ LET m == [media[r] EXCEPT !.Path = DownloadPath(media[r])]
           jsonPath == SidecarPath(m)
       IN  IF ~Exists(files, jsonPath)
           THEN /\ media' = [media EXCEPT ![r] = m]
                /\ result' = [result EXCEPT
                       ![r] = IngestFailed(NewErr("error reading json file"))]
                /\ steps' = [steps EXCEPT ![r] = Append(@,
                       Step("ingest", FALSE, FALSE, "", NewErr("error reading json file")))]
                /\ pc' = [pc EXCEPT ![r] = "end"]
                /\ UNCHANGED <<files, foreign>>
           ELSE \E sc \in Sidecars :
                   IF UndecodableSidecar(sc)
                   THEN /\ media' = [media EXCEPT ![r] = m]
                        /\ result' = [result EXCEPT
                               ![r] = IngestFailed(NewErr("error parsing json content"))]
                        /\ steps' = [steps EXCEPT ![r] = Append(@,
                               Step("ingest", FALSE, FALSE, "",
                                    NewErr("error parsing json content")))]
                        /\ pc' = [pc EXCEPT ![r] = "end"]
                        /\ UNCHANGED <<files, foreign>>
                   ELSE /\ media' = [media EXCEPT
                               ![r] = IF fallback THEN DecodeSidecarFallback(m, sc)
                                      ELSE DecodeSidecar(m, sc)]
                        /\ files' = RemoveFile(files, jsonPath)
                        /\ foreign' = (foreign \/ Foreign(r, jsonPath))
                        /\ steps' = [steps EXCEPT ![r] = Append(@,
                               Step("ingest", TRUE, FALSE, "", NoErr))]
                        /\ pc' = [pc EXCEPT
                               ![r] = IF fallback THEN AfterRename(m)
                                      ELSE AfterIngest(m)]
                        /\ result' = [result EXCEPT
                               ![r] = IF fallback THEN ResultAfterRename(m, @)
                                      ELSE ResultAfterIngest(m, @)]
    /\ UNCHANGED <<analysis, newName, cmd, probe, text, bot>>

\* populateInfo of the canonical variant, followed by the rename
populateInfo(r) == Ingest(r, FALSE)

(***************************************************************************)
(* rename to the human-readable name                                       *)
(***************************************************************************)
\* newFileName: the sanitized title plus the extension, with the short id
\* appended when a file of that name exists
TargetFileName(fs, m) ==
    LET sanitizedTitle == sanitizeFileName(m.Title)
        newFileName == sanitizedTitle \o MediaExt(m)
    IN  IF Exists(fs, Join(TmpDir, newFileName))
        THEN sanitizedTitle \o <<"_">> \o ShortId(m.randomName) \o MediaExt(m)
        ELSE newFileName

\* renameToReadableName up to and including os.Stat(newPath)
renameStat(r) ==
    /\ pc[r] = "rename"
    /\ LET m == media[r]
       IN  IF m.Title = <<>> \/ sanitizeFileName(m.Title) = <<>>
           THEN /\ steps' = [steps EXCEPT ![r] = Append(@,
                       Step("rename", FALSE, FALSE, "",
                            IF m.Title = <<>>
                            THEN NewErr("no title available")
                            ELSE NewErr("title sanitization resulted in empty string")))]
                /\ pc' = [pc EXCEPT ![r] = AfterRename(m)]
                /\ result' = [result EXCEPT ![r] = ResultAfterRename(m, @)]
                /\ UNCHANGED newName
           ELSE /\ newName' = [newName EXCEPT ![r] = TargetFileName(files, m)]
                /\ pc' = [pc EXCEPT ![r] = "rename2"]
                /\ UNCHANGED <<steps, result>>
    /\ UNCHANGED <<media, analysis, files, foreign, cmd, probe, text, bot>>

\* a rename that updates the record before it looks at os.Rename's error
RecordUpdatedAnyway(m, name) ==
    [m EXCEPT !.Path = Join(TmpDir, name), !.FileName = name]

\* the record when os.Rename failed: renameToReadableName returns before it
\* assigns Path and FileName
RecordAfterFailedRename(m, name) == m

\* renameToReadableName from os.Rename(media.Path, newPath) on
renameToReadableName(r) ==
    /\ pc[r] = "rename2"
    /\ LET m == media[r]
           newPath == Join(TmpDir, newName[r])
       IN  /\ IF ~Exists(files, m.Path)
              THEN /\ steps' = [steps EXCEPT ![r] = Append(@,
                          Step("rename", FALSE, FALSE, "",
                               Wrap("failed to rename file", NewErr("ENOENT"))))]
                   /\ media' = [media EXCEPT
                          ![r] = RecordAfterFailedRename(m, newName[r])]
                   /\ UNCHANGED <<files, foreign>>
              ELSE /\ files' = RenameFile(files, m.Path, newPath)
                   /\ foreign' = (foreign \/ Foreign(r, newPath) \/ Foreign(r, m.Path))
                   /\ media' = [media EXCEPT ![r].Path = newPath,
                                             ![r].FileName = newName[r]]
                   /\ steps' = [steps EXCEPT ![r] = Append(@,
                          Step("rename", TRUE, FALSE, "", NoErr))]
           /\ pc' = [pc EXCEPT ![r] = AfterRename(m)]
           /\ result' = [result EXCEPT ![r] = ResultAfterRename(m, @)]
    /\ newName' = [newName EXCEPT ![r] = <<>>]
    /\ UNCHANGED <<analysis, cmd, probe, text, bot>>

(***************************************************************************)
(* probing, stream selection and planning                                  *)
(***************************************************************************)
\* the outcomes of runFFProbe: a failure, or a decoded report
NoReport == [BitRate |-> <<>>, Streams |-> <<>>]

ProbeOutcomes ==
    {[fail |-> f, report |-> NoReport] : f \in ProbeFailures}
    \cup {[fail |-> "", report |-> rep] : rep \in ProbeReports}

\* an analysis that knows only what the probe found
analyzeMediaProbeOnly(m, size, report) ==
    LET bestVideoStream == selectBestVideoStream(report.Streams)
        bestAudioStream == selectBestAudioStream(report.Streams)
    IN  [NoAnalysis EXCEPT
            !.OriginalFileSize = size,
            !.OriginalVideoCodec =
                IF bestVideoStream # NoStream THEN bestVideoStream.CodecName ELSE <<>>,
            !.OriginalAudioCodec =
                IF bestAudioStream # NoStream THEN bestAudioStream.CodecName ELSE <<>>]

\* analyzeMedia once os.Stat and runFFProbe have succeeded
analyzeMedia(m, size, report) ==
    LET bestVideoStream == selectBestVideoStream(report.Streams)
        bestAudioStream == selectBestAudioStream(report.Streams)
    IN  [NoAnalysis EXCEPT
            !.OriginalFileSize = size,
            !.OriginalBitrate =
                IF report.BitRate # <<>> /\ Atoi(report.BitRate).ok
                THEN Atoi(report.BitRate).val ELSE 0,
            !.OriginalVideoCodec =
                IF bestVideoStream # NoStream
                THEN bestVideoStream.CodecName ELSE m.VCodec,
            !.OriginalAudioCodec =
                IF bestAudioStream # NoStream
                THEN bestAudioStream.CodecName ELSE m.ACodec]

\* determineConversionStrategy of the canonical variant
determineConversionStrategy(m, a) ==
    LET needsVideo == needsVideoConversion(m.VCodec, a.OriginalVideoCodec)
        needsAudio == needsAudioConversion(a.OriginalAudioCodec)
    IN  [a EXCEPT
            !.NeedsVideoConversion = needsVideo,
            !.NeedsAudioConversion = needsAudio,
            !.AudioConversionType = IF needsAudio THEN "aac" ELSE "copy",
            !.IsAlreadyCompatible = ~needsVideo /\ ~needsAudio]

\* Go's integer division: the quotient truncated toward zero
TruncDiv(a, b) ==
    IF (a >= 0) = (b > 0) THEN (IF a >= 0 THEN a \div b ELSE (0 - a) \div (0 - b))
    ELSE 0 - ((IF a >= 0 THEN a ELSE 0 - a) \div (IF b > 0 THEN b ELSE 0 - b))

\* audioBitrate := int64(128000)
AudioBitrate == 128000

\* minBitrate := int64(200000)
MinBitrate == 200000

\* maxBitrate := int64(2000000)
MaxBitrate == 2000000

\* targetSizeRatio := 1.15, in percent
TargetSizePercent == 115

\* the largest power of two not above n: the binade of a float64 of value n
RECURSIVE FloorPow2(_)
FloorPow2(n) == IF n < 2 THEN 1 ELSE 2 * FloorPow2(n \div 2)

\* a target container size equal to the original size
TargetFileSizeUnscaled(originalFileSize) == originalFileSize

\* int64(float64(analysis.OriginalFileSize) * targetSizeRatio): the float64
\* nearest to 1.15 is 1.15 - 0.4 * 2^-52, so the product of a size 20 * j,
\* whose exact value 23 * j is a whole number, lies j * 2^-49 below it and is
\* rounded to the float64 below 23 * j when that is more than half a unit in
\* the last place of 23 * j; every other product truncates to the exact floor
TargetFileSize(originalFileSize) ==
    LET exact == (originalFileSize * TargetSizePercent) \div 100
        j == originalFileSize \div 20
    IN  IF originalFileSize > 0 /\ originalFileSize % 20 = 0
           /\ 16 * j > FloorPow2(exact)
        THEN exact - 1 ELSE exact

\* a budget without the "Ensure reasonable bounds" block
calculateTargetBitrateUnclamped(duration, originalFileSize) ==
    LET targetFileSize == TargetFileSize(originalFileSize)
        durationSeconds == IF duration = 0 THEN 1 ELSE duration
    IN  TruncDiv(targetFileSize * 8, durationSeconds) - AudioBitrate

\* calculateTargetBitrate
calculateTargetBitrate(duration, originalFileSize) ==
    LET targetFileSize == TargetFileSize(originalFileSize)
        durationSeconds == IF duration = 0 THEN 1 ELSE duration
        targetBitrate == TruncDiv(targetFileSize * 8, durationSeconds) - AudioBitrate
    IN  IF targetBitrate < MinBitrate THEN MinBitrate
        ELSE IF targetBitrate > MaxBitrate THEN MaxBitrate
        ELSE targetBitrate

\* a planner that picks the target video codec by the size of the file
determineConversionStrategyBySize(m, a) ==
    LET needsVideo == needsVideoConversion(m.VCodec, a.OriginalVideoCodec)
        needsAudio == needsAudioConversion(a.OriginalAudioCodec)
    IN  [a EXCEPT
            !.NeedsVideoConversion = needsVideo,
            !.NeedsAudioConversion = needsAudio,
            !.VideoConversionType =
                IF ~needsVideo THEN "none"
                ELSE IF a.OriginalFileSize > 8388608 THEN "h265" ELSE "h264",
            !.AudioConversionType = IF needsAudio THEN "aac" ELSE "copy",
            !.TargetBitrate = calculateTargetBitrate(m.Duration, a.OriginalFileSize),
            !.IsAlreadyCompatible = ~needsVideo /\ ~needsAudio]

\* determineConversionStrategy of the fallback variant
determineConversionStrategyFallback(m, a) ==
    LET needsVideo == needsVideoConversion(m.VCodec, a.OriginalVideoCodec)
        needsAudio == needsAudioConversion(a.OriginalAudioCodec)
    IN  [a EXCEPT
            !.NeedsVideoConversion = needsVideo,
            !.NeedsAudioConversion = needsAudio,
            !.VideoConversionType = IF needsVideo THEN "h265" ELSE "none",
            !.AudioConversionType = IF needsAudio THEN "aac" ELSE "copy",
            !.TargetBitrate =
                IF needsVideo
                THEN calculateTargetBitrate(m.Duration, a.OriginalFileSize)
                ELSE a.TargetBitrate,
            !.IsAlreadyCompatible = ~needsVideo /\ ~needsAudio]

\* a DownloadMedia that converts whatever the plan says
AfterPlanAlways(a) == "convert"

\* DownloadMedia once a plan exists: convert unless already compatible
AfterPlan(a) == IF a.IsAlreadyCompatible THEN "returned" ELSE "convert"

\* a DownloadMedia that returns the error of analyzeMedia
AfterAnalysisFailureFatal == "end"

\* DownloadMedia when analyzeMedia failed: log and skip the conversion
AfterAnalysisFailure == "returned"

\* analyzeMedia and the variant's determineConversionStrategy, as DownloadMedia
\* calls them; fallback selects the variant with the size-budget bitrate
Analyze(r, fallback) ==
    /\ pc[r] = "analyze"
    /\ LET m == media[r]
       IN  IF ~Exists(files, m.Path)
           THEN /\ steps' = [steps EXCEPT ![r] = Append(@,
                       Step("stat", FALSE, FALSE, "",
                            Wrap("error getting file info", NewErr("ENOENT"))))]
                /\ pc' = [pc EXCEPT ![r] = AfterAnalysisFailure]
                /\ result' = [result EXCEPT
                       ![r] = IF AfterAnalysisFailure = "returned" THEN Success
                              ELSE Failure(NewErr("error getting file info"))]
                /\ UNCHANGED analysis
           ELSE \E size \in FileSizes, out \in ProbeOutcomes :
                   IF out.fail # ""
                   THEN /\ steps' = [steps EXCEPT ![r] = Append(@,
                               Step("probe", FALSE, FALSE, "",
                                    ToolErr(out.fail, Len(steps[r]) + 1)))]
                        /\ pc' = [pc EXCEPT ![r] = AfterAnalysisFailure]
                        /\ result' = [result EXCEPT
                               ![r] = IF AfterAnalysisFailure = "returned"
                                      THEN Success
                                      ELSE Failure(ToolErr(out.fail, Len(steps[r]) + 1))]
                        /\ UNCHANGED analysis
                   ELSE LET found == analyzeMedia(m, size, out.report)
                            a == IF fallback
                                 THEN determineConversionStrategyFallback(m, found)
                                 ELSE determineConversionStrategy(m, found)
                        IN  /\ analysis' = [analysis EXCEPT ![r] = a]
                            /\ steps' = [steps EXCEPT ![r] =
                                   @ \o << Step("probe", TRUE, FALSE, "", NoErr),
                                           Step("plan", TRUE, FALSE, "", NoErr) >>]
                            /\ pc' = [pc EXCEPT ![r] = AfterPlan(a)]
                            /\ result' = [result EXCEPT
                                   ![r] = IF AfterPlan(a) = "returned"
                                          THEN Success ELSE @]
    /\ UNCHANGED <<media, newName, files, foreign, cmd, probe, text, bot>>

\* the analysis step of the canonical variant
analyze(r) == Analyze(r, FALSE)

(***************************************************************************)
(* the Transcoder, canonical variant                                       *)
(***************************************************************************)
\* outputFileName of convertIntelligent
OutputFileName(m) ==
    IF m.FileName # <<>>
    THEN TrimSuffix(m.FileName, Ext(m.FileName)) \o <<"_converted", ".mp4">>
    ELSE m.randomName \o <<"_converted", ".mp4">>

\* the encode tool exits 0: it was not made to fail, its input exists, and its
\* output does not (it is run without -y and has nobody to ask)
EncodeSucceeds(fs, input, output, exit0) ==
    exit0 /\ Exists(fs, input) /\ ~Exists(fs, output)

\* the path convertIntelligent removes after a successful encode
OriginalFilePath(m) == Join(TmpDir, m.randomName \o <<".mp4">>)

\* a DownloadMedia that only logs the failure of convertIntelligent
ConvertFailedSwallowed(err) == Success

\* DownloadMedia on a failure of convertIntelligent
ConvertFailed(err) ==
    Failure(Wrap("error converting video", Wrap("ffmpeg conversion failed", err)))

\* videoAction of DownloadMedia: the video codec the encode is asked for
VideoAction(a) == IF a.NeedsVideoConversion THEN "h264" ELSE "copy"

\* convertIntelligent, and DownloadMedia's return after it
convertIntelligent(r) ==
    /\ pc[r] = "convert"
    /\ LET m == media[r]
           outputFileName == OutputFileName(m)
           outputPath == Join(TmpDir, outputFileName)
       IN  \E exit0 \in BOOLEAN :
              IF ~EncodeSucceeds(files, m.Path, outputPath, exit0)
              THEN LET err == ToolErr("exit status 1", Len(steps[r]) + 1)
                   IN  /\ steps' = [steps EXCEPT ![r] = Append(@,
                              Step("encode", FALSE, FALSE, VideoAction(analysis[r]), err))]
                       /\ result' = [result EXCEPT ![r] = ConvertFailed(err)]
                       /\ pc' = [pc EXCEPT ![r] = "end"]
                       /\ UNCHANGED <<media, files, foreign>>
              ELSE LET written == WriteFile(files, outputPath,
                                            [owner |-> r, kind |-> "converted"])
                       original == OriginalFilePath(m)
                   IN  /\ files' = IF Exists(written, original)
                                   THEN RemoveFile(written, original) ELSE written
                       /\ foreign' = (foreign \/ Foreign(r, original))
                       /\ media' = [media EXCEPT ![r].Path = outputPath,
                                                 ![r].FileName = outputFileName]
                       /\ steps' = [steps EXCEPT ![r] = Append(@,
                              Step("encode", TRUE, FALSE, VideoAction(analysis[r]), NoErr))]
                       /\ result' = [result EXCEPT ![r] = Success]
                       /\ pc' = [pc EXCEPT ![r] = "returned"]
    /\ UNCHANGED <<analysis, newName, cmd, probe, text, bot>>

(***************************************************************************)
(* handleDownload after a successful DownloadMedia                         *)
(***************************************************************************)
\* GetFileSize, SendAudio / SendVideo, then media.Delete()
deliver(r) ==
    /\ pc[r] = "returned"
    /\ LET path == media[r].Path
       IN  IF Exists(files, path)
           THEN /\ files' = RemoveFile(files, path)
                /\ foreign' = (foreign \/ Foreign(r, path))
                /\ steps' = [steps EXCEPT ![r] = Append(@,
                       Step("delete", TRUE, FALSE, "", NoErr))]
           ELSE /\ steps' = [steps EXCEPT ![r] = Append(@,
                       Step("delete", FALSE, FALSE, "",
                            Wrap("error deleting file", NewErr("ENOENT"))))]
                /\ UNCHANGED <<files, foreign>>
    /\ pc' = [pc EXCEPT ![r] = "end"]
    /\ UNCHANGED <<media, analysis, newName, result, cmd, probe, text, bot>>

(***************************************************************************)
(* the canonical pipeline                                                  *)
(***************************************************************************)
PipelineStep(r) ==
        \/ Start(r)
        \/ FirstAttempt(r)
        \/ SecondAttempt(r)
        \/ populateInfo(r)
        \/ renameStat(r)
        \/ renameToReadableName(r)
        \/ analyze(r)
        \/ convertIntelligent(r)
        \/ deliver(r)

Next == \E r \in Requests : PipelineStep(r)

Spec == Init /\ [][Next]_vars

\* several requests in flight share the working directory
NextConcurrent == \E r \in AllRequests : PipelineStep(r)

SpecConcurrent == Init /\ [][NextConcurrent]_vars

(***************************************************************************)
(* the fallback variant of the pipeline: no rename step, a size-budget     *)
(* bitrate, and a Transcoder that demotes h265 to h264                     *)
(***************************************************************************)
\* populateInfo of the fallback variant, followed by the audio-only return
populateInfoFallback(r) == Ingest(r, TRUE)

\* the analysis step of the fallback variant
analyzeFallback(r) == Analyze(r, TRUE)

\* the video codec one run of the fallback convertIntelligent asks for
EncodeTarget(a) ==
    IF a.NeedsVideoConversion
    THEN (IF a.VideoConversionType = "h265" THEN "h265" ELSE "h264")
    ELSE "copy"

\* a retry that is also taken when no video conversion was asked for
RetriesOnNone(a) == a.VideoConversionType \in {"h265", "none"}

\* "Try H.264 fallback if H.265 failed": the test that decides on the retry
RetriesWithFallback(a) == a.VideoConversionType = "h265"

\* a demotion that also gives up the video conversion
DemoteToCopy(a) ==
    [a EXCEPT !.VideoConversionType = "h264", !.NeedsVideoConversion = FALSE]

\* analysis.VideoConversionType = "h264"
Demote(a) == [a EXCEPT !.VideoConversionType = "h264"]

\* one run of the fallback convertIntelligent: on a failed h265 encode it
\* demotes the target and calls itself again
convertIntelligentFallback(r) ==
    /\ pc[r] = "convert"
    /\ LET m == media[r]
           a == analysis[r]
           outputFileName == m.randomName \o <<"_converted", ".mp4">>
           outputPath == Join(TmpDir, outputFileName)
       IN  \E exit0 \in BOOLEAN :
              IF ~EncodeSucceeds(files, m.Path, outputPath, exit0)
              THEN LET err == ToolErr("exit status 1", Len(steps[r]) + 1)
                   IN  /\ steps' = [steps EXCEPT ![r] = Append(@,
                              Step("encode", FALSE, FALSE, EncodeTarget(a), err))]
                       /\ IF RetriesWithFallback(a)
                          THEN /\ analysis' = [analysis EXCEPT ![r] = Demote(a)]
                               /\ UNCHANGED <<result, pc>>
                          ELSE /\ result' = [result EXCEPT ![r] = ConvertFailed(err)]
                               /\ pc' = [pc EXCEPT ![r] = "end"]
                               /\ UNCHANGED analysis
                       /\ UNCHANGED <<media, files, foreign>>
              ELSE LET written == WriteFile(files, outputPath,
                                            [owner |-> r, kind |-> "converted"])
                       original == OriginalFilePath(m)
                   IN  /\ files' = IF Exists(written, original)
                                   THEN RemoveFile(written, original) ELSE written
                       /\ foreign' = (foreign \/ Foreign(r, original))
                       /\ media' = [media EXCEPT ![r].Path = outputPath,
                                                 ![r].FileName = outputFileName]
                       /\ steps' = [steps EXCEPT ![r] = Append(@,
                              Step("encode", TRUE, FALSE, EncodeTarget(a), NoErr))]
                       /\ result' = [result EXCEPT ![r] = Success]
                       /\ pc' = [pc EXCEPT ![r] = "returned"]
                       /\ UNCHANGED analysis
    /\ UNCHANGED <<newName, cmd, probe, text, bot>>

FallbackStep(r) ==
        \/ Start(r)
        \/ FirstAttempt(r)
        \/ SecondAttempt(r)
        \/ populateInfoFallback(r)
        \/ analyzeFallback(r)
        \/ convertIntelligentFallback(r)
        \/ deliver(r)

NextFallback == \E r \in Requests : FallbackStep(r)

SpecFallback == Init /\ [][NextFallback]_vars

(***************************************************************************)
(* the fetch argument lists of one request, built for both tiers           *)
(***************************************************************************)
\* the cookie-jar paths a request can carry: none, or a file
CookieJars == {<<>>, CookiesFile, <<"/tmp", "/", "cookies.txt">>}

\* the requests getCommandString is applied to
InitArgs ==
    /\ InitPipeline
    /\ probe = NoProbe
    /\ text = <<>>
    /\ bot = NoBot
    /\ \E u \in ValidURLs, audioOnly \in BOOLEAN, jar \in CookieJars :
          cmd = [NoCmd EXCEPT !.audioOnly = audioOnly, !.url = u,
                              !.cookiesFile = jar]

\* getCommandString(simplified) for the request: tier 1 is simplified = FALSE
BuildArgs(simplified) ==
    /\ IF simplified THEN cmd.simple = <<>> ELSE cmd.full = <<>>
    /\ LET args == getCommandString(cmd.audioOnly, cmd.url, TmpDir,
                                    randomNameOf(1), cmd.cookiesFile, simplified)
       IN  cmd' = IF simplified
                  THEN [cmd EXCEPT !.simple = args, !.built = (cmd.full # <<>>)]
                  ELSE [cmd EXCEPT !.full = args, !.built = (cmd.simple # <<>>)]
    /\ UNCHANGED <<pc, media, analysis, newName, files, result, steps, foreign,
                   probe, text, bot>>

NextArgs == \E simplified \in BOOLEAN : BuildArgs(simplified)

SpecArgs == InitArgs /\ [][NextArgs]_vars

(***************************************************************************)
(* the codec policy and the planner, applied to records of any content: two *)
(* runs on the same record and tags, whose file sizes may differ           *)
(***************************************************************************)
\* the probed video codec tags the policy is applied to
VideoTags ==
    { <<"av01">>, <<"av01", ".0.08M.08">>, <<"vp9">>, <<"vp09", ".00.40.08">>,
      <<"hevc">>, <<"h264">>, <<"h263">>, <<"unknown">>, <<>>,
      <<"AV01">>, <<"Vp9">>, <<"VP09", ".00">> }

\* the probed audio codec tags the policy is applied to
AudioTags ==
    { <<"aac">>, <<"opus">>, <<"vorbis">>, <<"flac">>, <<"mp3">>, <<"unknown">>,
      <<>>, <<"lib", "opus">>, <<"flac", "2">> }

\* the values Media.VCodec can hold when the policy is applied
RecordVCodecs ==
    { <<>>, <<"av01", ".0.08M.08">>, <<"vp09", ".00.40.08">>, <<"vp9">>,
      <<"avc1", ".64001F">> }

\* the runs of the policy: both on the same record and tags
PolicyRuns == {1, 2}

\* OriginalFileSize of the second run; the first run has the smallest
PolicySizes == {5242880, 10485760}

PolicySize == CHOOSE s \in PolicySizes : \A t \in PolicySizes : s <= t

\* Media.Duration of the record, in seconds
PolicyDurations == {0, 60}

InitPolicy ==
    /\ cmd = NoCmd
    /\ probe = NoProbe
    /\ text = <<>>
    /\ bot = NoBot
    /\ newName = [r \in AllRequests |-> <<>>]
    /\ files = <<>>
    /\ result = [r \in AllRequests |-> Pending]
    /\ steps = [r \in AllRequests |-> <<>>]
    /\ foreign = FALSE
    /\ pc = [r \in AllRequests |-> IF r \in PolicyRuns THEN "tags" ELSE "idle"]
    /\ \E vcodec \in RecordVCodecs, tag \in VideoTags, atag \in AudioTags,
          dur \in PolicyDurations, size \in PolicySizes :
          /\ media = [r \in AllRequests |->
                        IF r \in PolicyRuns
                        THEN [NoMedia EXCEPT !.VCodec = vcodec, !.Duration = dur]
                        ELSE NoMedia]
          /\ analysis = [r \in AllRequests |->
                        IF r \in PolicyRuns
                        THEN [NoAnalysis EXCEPT
                                 !.OriginalVideoCodec = tag,
                                 !.OriginalAudioCodec = atag,
                                 !.OriginalFileSize = IF r = 1 THEN PolicySize ELSE size]
                        ELSE NoAnalysis]

\* media.needsVideoConversion(codec)
DecideVideo(r) ==
    /\ pc[r] = "tags"
    /\ analysis' = [analysis EXCEPT ![r].NeedsVideoConversion =
           needsVideoConversion(media[r].VCodec, analysis[r].OriginalVideoCodec)]
    /\ pc' = [pc EXCEPT ![r] = "video"]
    /\ UNCHANGED <<media, newName, files, result, steps, foreign, cmd, probe, text, bot>>

\* media.needsAudioConversion(codec)
DecideAudio(r) ==
    /\ pc[r] = "tags"
    /\ analysis' = [analysis EXCEPT ![r].NeedsAudioConversion =
           needsAudioConversion(analysis[r].OriginalAudioCodec)]
    /\ pc' = [pc EXCEPT ![r] = "audio"]
    /\ UNCHANGED <<media, newName, files, result, steps, foreign, cmd, probe, text, bot>>

\* media.determineConversionStrategy(analysis), fallback variant
PlanFallback(r) ==
    /\ pc[r] = "tags"
    /\ analysis' = [analysis EXCEPT
           ![r] = determineConversionStrategyFallback(media[r], analysis[r])]
    /\ pc' = [pc EXCEPT ![r] = "planned"]
    /\ UNCHANGED <<media, newName, files, result, steps, foreign, cmd, probe, text, bot>>

NextPolicy ==
    \E r \in PolicyRuns : DecideVideo(r) \/ DecideAudio(r) \/ PlanFallback(r)

SpecPolicy == InitPolicy /\ [][NextPolicy]_vars

(***************************************************************************)
(* calculateTargetBitrate, applied to one record and one analysis          *)
(***************************************************************************)
\* analysis.OriginalFileSize, in bytes
BitrateSizes ==
    {0, 1, 20, 100, 30000, 35660, 81940, 100000, 100001, 231300, 300000,
     1048576, 5242880, 10485760, 15728640, 18000000}

\* media.Duration, in seconds
BitrateDurations == {-60, 0, 1, 2, 30, 60}

InitBitrate ==
    /\ cmd = NoCmd
    /\ probe = NoProbe
    /\ text = <<>>
    /\ bot = NoBot
    /\ newName = [r \in AllRequests |-> <<>>]
    /\ files = <<>>
    /\ result = [r \in AllRequests |-> Pending]
    /\ steps = [r \in AllRequests |-> <<>>]
    /\ foreign = FALSE
    /\ pc = [r \in AllRequests |-> IF r = 1 THEN "budget" ELSE "idle"]
    /\ \E dur \in BitrateDurations, size \in BitrateSizes :
          /\ media = [r \in AllRequests |->
                        IF r = 1 THEN [NoMedia EXCEPT !.Duration = dur] ELSE NoMedia]
          /\ analysis = [r \in AllRequests |->
                        IF r = 1 THEN [NoAnalysis EXCEPT !.OriginalFileSize = size]
                        ELSE NoAnalysis]

\* analysis.TargetBitrate = media.calculateTargetBitrate(analysis)
Budget ==
    /\ pc[1] = "budget"
    /\ analysis' = [analysis EXCEPT ![1].TargetBitrate =
           calculateTargetBitrate(media[1].Duration, analysis[1].OriginalFileSize)]
    /\ pc' = [pc EXCEPT ![1] = "budgeted"]
    /\ UNCHANGED <<media, newName, files, result, steps, foreign, cmd, probe, text, bot>>

NextBitrate == Budget

SpecBitrate == InitBitrate /\ [][NextBitrate]_vars

(***************************************************************************)
(* the stream selectors, applied to the streams of one probe report        *)
(***************************************************************************)
\* the number of streams of a probe report
MaxStreams == 3

\* the streams a report is made of; Index is given by the position
StreamDescriptors ==
    { MkStream(0, "video", <<"h264">>, <<"4", "0", "0", "0">>, 1920, 1080, 0, 0),
      MkStream(0, "video", <<"h264">>, <<"6", "0", "0", "0">>, 1280, 720, 0, 1),
      MkStream(0, "video", <<"vp9">>, <<"2", "0", "0", "0">>, 1280, 720, 0, 1),
      MkStream(0, "audio", <<"aac">>, <<"1", "0", "0">>, 0, 0, 6, 0),
      MkStream(0, "audio", <<"aac">>, <<"3", "0", "0">>, 0, 0, 2, 1),
      MkStream(0, "audio", <<"opus">>, <<"6", "4">>, 0, 0, 2, 1),
      MkStream(0, "video", <<"h264">>, <<"6", "0", "0", "0">>, 1280, 720, 0, 0),
      MkStream(0, "video", <<"h264">>, <<>>, 1920, 1080, 0, 0),
      MkStream(0, "video", <<"h264">>, <<"N/A">>, 1920, 1080, 0, 0),
      MkStream(0, "audio", <<"aac">>, <<"3", "0", "0">>, 0, 0, 2, 0),
      MkStream(0, "audio", <<"aac">>, <<"N/A">>, 0, 0, 6, 0),
      MkStream(0, "subtitle", <<"mov_text">>, <<>>, 0, 0, 0, 1) }

\* probeResult.Streams: the descriptors in probe order, Index counting from 0
StreamLists ==
    { [i \in 1..Len(d) |-> [d[i] EXCEPT !.Index = i - 1]] :
          d \in UNION {[1..k -> StreamDescriptors] : k \in 0..MaxStreams} }

InitSelect ==
    /\ InitPipeline
    /\ cmd = NoCmd
    /\ text = <<>>
    /\ bot = NoBot
    /\ \E streams \in StreamLists :
          probe = [NoProbe EXCEPT !.Streams = streams]

\* bestVideoStream := selectBestVideoStream(probeResult.Streams)
SelectVideo ==
    /\ "video" \notin probe.done
    /\ probe' = [probe EXCEPT !.video = selectBestVideoStream(probe.Streams),
                              !.done = @ \cup {"video"}]
    /\ UNCHANGED <<pc, media, analysis, newName, files, result, steps, foreign, cmd, text, bot>>

\* bestAudioStream := selectBestAudioStream(probeResult.Streams)
SelectAudio ==
    /\ "audio" \notin probe.done
    /\ probe' = [probe EXCEPT !.audio = selectBestAudioStream(probe.Streams),
                              !.done = @ \cup {"audio"}]
    /\ UNCHANGED <<pc, media, analysis, newName, files, result, steps, foreign, cmd, text, bot>>

NextSelect == SelectVideo \/ SelectAudio

SpecSelect == InitSelect /\ [][NextSelect]_vars

(***************************************************************************)
(* analyzeMedia, applied to a record with its sidecar tags and the streams *)
(* of one probe report                                                     *)
(***************************************************************************)
InitAnalyze ==
    /\ cmd = NoCmd
    /\ text = <<>>
    /\ bot = NoBot
    /\ analysis = [r \in AllRequests |-> NoAnalysis]
    /\ newName = [r \in AllRequests |-> <<>>]
    /\ files = <<>>
    /\ result = [r \in AllRequests |-> Pending]
    /\ steps = [r \in AllRequests |-> <<>>]
    /\ foreign = FALSE
    /\ pc = [r \in AllRequests |-> IF r = 1 THEN "probed" ELSE "idle"]
    /\ \E streams \in StreamLists :
          probe = [NoProbe EXCEPT !.Streams = streams]
    /\ \E vcodec \in {<<>>, <<"avc1", ".64001F">>, <<"vp09", ".00.40.08">>},
          acodec \in {<<"mp4a", ".40.2">>, <<"opus">>} :
          media = [r \in AllRequests |->
                     IF r = 1
                     THEN [NewMedia(randomNameOf(1), Generic, <<>>, FALSE)
                              EXCEPT !.VCodec = vcodec, !.ACodec = acodec,
                                     !.Path = DownloadPath(NewMedia(
                                         randomNameOf(1), Generic, <<>>, FALSE))]
                     ELSE NoMedia]

\* analyzeMedia from the probe report on; probe.video and probe.audio are its
\* bestVideoStream and bestAudioStream
AnalyzeStreams ==
    /\ pc[1] = "probed"
    /\ \E size \in FileSizes :
          analysis' = [analysis EXCEPT
              ![1] = analyzeMedia(media[1], size,
                                  [BitRate |-> <<>>, Streams |-> probe.Streams])]
    /\ probe' = [probe EXCEPT !.video = selectBestVideoStream(probe.Streams),
                              !.audio = selectBestAudioStream(probe.Streams),
                              !.done = {"video", "audio"}]
    /\ pc' = [pc EXCEPT ![1] = "analyzed"]
    /\ UNCHANGED <<media, newName, files, result, steps, foreign, cmd, text, bot>>

NextAnalyze == AnalyzeStreams

SpecAnalyze == InitAnalyze /\ [][NextAnalyze]_vars

(***************************************************************************)
(* CustomDuration.UnmarshalJSON and sanitizeFileName, applied to one string *)
(***************************************************************************)
\* the length of a duration_string
MaxDurationLen == 5

\* the length of a title, in characters
MaxTitleLen == 4

\* the values of duration_string: every string of digits, colons and other
\* bytes up to the length, and some longer ones
DurationStrings ==
    UNION {[1..n -> {"0", "3", ":", "x", "-"}] : n \in 0..MaxDurationLen}
    \cup { <<"1", ":", "3", "0", ":", "4", "5">>, <<"1", ":", "2", ":", "3", ":", "4">>,
           <<"0", "5", ":", "0", "9", ":", "0", "7">>, <<"+", "3", ":", "-", "3", "0">>,
           <<"3", ":", "3", ":", "3", ":">>, <<"1", ".", "5">>, <<" ", "3", "0">> }

\* the bytes of a sequence of characters
RECURSIVE Flatten(_)
Flatten(cs) ==
    IF Len(cs) = 0 THEN <<>>
    ELSE IF Len(cs) = 1 THEN cs[1]
    ELSE Flatten(SubSeq(cs, 1, Len(cs) \div 2))
             \o Flatten(SubSeq(cs, Len(cs) \div 2 + 1, Len(cs)))

\* the values of title, as valid UTF-8 byte sequences: every string up to the
\* length over a letter, the space, the period, a replaced, a dropped and a
\* control character, the two-byte letter U+0414 and the no-break space; and
\* long titles of one letter with spaces at chosen character positions, or
\* with the end of a sentence (a period and a space) at a chosen position
Titles ==
    LET chars == {<<"a">>, <<" ">>, <<".">>, <<":">>, <<"?">>, <<"\t">>,
                  <<"D0", "94">>, <<"C2", "A0">>}
        short == {Flatten(cs) : cs \in UNION {[1..n -> chars] : n \in 0..MaxTitleLen}}
        long == {q \o Flatten([i \in 1..n |-> IF (i - 1) \in P THEN <<" ">> ELSE f]) :
                     q \in {<<>>, <<"?">>},
                     n \in {50, 51, 99, 100, 101, 102, 130},
                     P \in SUBSET {10, 50, 70, 71, 99, 100},
                     f \in {<<"a">>, <<"D0", "94">>}}
        examples ==
            { <<"M", "y", " ", "V", "i", "d", "e", "o", ":", " ", "P", "a", "r", "t",
                " ", "1", "/", "2">>,
              <<"Q", "u", "e", "s", "?", "t", "i", "o", "n", "*">>,
              <<"a", "/", "\\", "<", ">", ":", "\"", "|", "?", "*", "\n", "\t", "b">> }
        sentences ==
            {[i \in 1..n |-> IF i = k THEN "." ELSE IF i = k + 1 THEN " " ELSE "a"] :
                 n \in {100, 112}, k \in {60, 80, 99, 100}}
    IN  short \cup long \cup examples \cup sentences

\* the string is about to be decoded or sanitized on its own, or is the title
\* of a record renameToReadableName is called on; the duration of the record
\* holds an earlier value
InitStrings ==
    /\ cmd = NoCmd
    /\ bot = NoBot
    /\ probe = NoProbe
    /\ newName = [r \in AllRequests |-> <<>>]
    /\ files = <<>>
    /\ result = [r \in AllRequests |-> Pending]
    /\ steps = [r \in AllRequests |-> <<>>]
    /\ foreign = FALSE
    /\ analysis = [r \in AllRequests |-> NoAnalysis]
    /\ \E v \in DurationStrings \cup Titles, at \in {"string", "rename"} :
          /\ text = v
          /\ pc = [r \in AllRequests |-> IF r = 1 THEN at ELSE "idle"]
          /\ media = [r \in AllRequests |->
                        IF r = 1 THEN [NoMedia EXCEPT !.Title = v, !.Duration = 7]
                        ELSE NoMedia]

\* json.Unmarshal of the string into media.Duration: *d is assigned only
\* after every part has been parsed
UnmarshalJSON ==
    /\ pc[1] = "string"
    /\ LET d == UnmarshalDuration(text)
       IN  /\ media' = [media EXCEPT ![1].Duration = IF d.ok THEN d.seconds ELSE @]
           /\ result' = [result EXCEPT
                  ![1] = IF d.ok THEN Success
                         ELSE Failure(NewErr("invalid time format"))]
    /\ pc' = [pc EXCEPT ![1] = "decoded"]
    /\ UNCHANGED <<analysis, newName, files, steps, foreign, cmd, probe, text, bot>>

\* sanitizedTitle := sanitizeFileName(media.Title)
Sanitize ==
    /\ pc[1] = "string"
    /\ newName' = [newName EXCEPT ![1] = sanitizeFileName(text)]
    /\ pc' = [pc EXCEPT ![1] = "sanitized"]
    /\ UNCHANGED <<media, analysis, files, result, steps, foreign, cmd, probe, text, bot>>

NextStrings == UnmarshalJSON \/ Sanitize \/ renameStat(1)

SpecStrings == InitStrings /\ [][NextStrings]_vars

(***************************************************************************)
(* Media.Delete, called any number of times on a record whose file may or  *)
(* may not be in the working directory                                     *)
(***************************************************************************)
\* how many times Delete is called on one record
MaxDeletes == 3

\* the paths a record can hold: the download, the extracted audio, a
\* readable name, and the empty path of a record that was never filled
DeletePaths == {Join(TmpDir, randomNameOf(1) \o <<".mp4">>),
                Join(TmpDir, randomNameOf(1) \o <<".mp3">>),
                Join(TmpDir, <<"a-b", ".mp4">>),
                <<>>}

InitDelete ==
    /\ cmd = NoCmd
    /\ probe = NoProbe
    /\ text = <<>>
    /\ bot = NoBot
    /\ newName = [r \in AllRequests |-> <<>>]
    /\ result = [r \in AllRequests |-> Success]
    /\ steps = [r \in AllRequests |-> <<>>]
    /\ foreign = FALSE
    /\ analysis = [r \in AllRequests |-> NoAnalysis]
    /\ pc = [r \in AllRequests |-> IF r = 1 THEN "held" ELSE "idle"]
    /\ \E present \in SUBSET (DeletePaths \ {<<>>}) :
          files = [p \in present |-> [owner |-> 1, kind |-> "downloaded"]]
    /\ \E path \in DeletePaths, audioOnly \in BOOLEAN :
          media = [r \in AllRequests |->
                     IF r = 1
                     THEN [NewMedia(randomNameOf(1), Generic, <<>>, audioOnly)
                              EXCEPT !.Path = path,
                                     !.FileName = <<"a-b", ".mp4">>,
                                     !.Title = <<"a", ":", "b">>]
                     ELSE NoMedia]

\* media.Delete(): os.Remove(media.Path)
Delete(r) ==
    /\ pc[r] = "held"
    /\ Len(steps[r]) < MaxDeletes
    /\ LET path == media[r].Path
       IN  IF Exists(files, path)
           THEN /\ files' = RemoveFile(files, path)
                /\ steps' = [steps EXCEPT ![r] = Append(@,
                       Step("delete", TRUE, FALSE, "", NoErr))]
           ELSE /\ steps' = [steps EXCEPT ![r] = Append(@,
                       Step("delete", FALSE, FALSE, "",
                            Wrap("error deleting file", NewErr("ENOENT"))))]
                /\ UNCHANGED files
    /\ UNCHANGED <<pc, media, analysis, newName, result, foreign, cmd, probe, text, bot>>

NextDelete == \E r \in Requests : Delete(r)

SpecDelete == InitDelete /\ [][NextDelete]_vars

(***************************************************************************)
(* the users table, RegisterUser and BroadcastMessage. Handlers of         *)
(* different updates run concurrently: a RegisterUser can fall between any *)
(* two database statements of a running broadcast. The database statements *)
(* themselves are taken to succeed.                                        *)
(***************************************************************************)
\* the chats that talk to the bot
NumChats == 2

ChatIDs == 1..NumChats

\* how many updates (interactions, broadcast commands, /stats commands) arrive
MaxEvents == 6

\* the error of a send: nil, or an error that is or is not a bot.ErrorForbidden
\* and has a description
SendErr(forbidden, msg) == [nil |-> FALSE, forbidden |-> forbidden, msg |-> msg]

\* what sendFunc can return
SendOutcomes ==
    {[nil |-> TRUE],
     SendErr(TRUE, <<"Forbidden: ", "bot was blocked by the user">>),
     SendErr(TRUE, <<"Forbidden: ", "user is deactivated">>),
     SendErr(TRUE, <<"Forbidden: ", "bot can't initiate conversation with a user">>),
     SendErr(TRUE, <<"Forbidden: ", "bot is not a member of the channel chat">>),
     SendErr(FALSE, <<"Bad Request: ", "chat not found">>),
     SendErr(FALSE, <<"context deadline exceeded">>)}

blockIndicators ==
    {<<"bot was blocked by the user">>, <<"user is deactivated">>,
     <<"bot can't initiate conversation with a user">>}

\* a test that takes every Forbidden error for a block
isUserBlockedErrorAnyForbidden(err) == ~err.nil /\ err.forbidden

\* isUserBlockedError
isUserBlockedError(err) ==
    /\ ~err.nil
    /\ err.forbidden
    /\ \E indicator \in blockIndicators : Contains(err.msg, indicator)

\* INSERT INTO users ... ON CONFLICT(chat_id) DO UPDATE SET is_active = 1,
\* last_interaction = CURRENT_TIMESTAMP
registerUser(users, chatID, now) ==
    [c \in DOMAIN users \cup {chatID} |->
        IF c = chatID THEN [is_active |-> 1, last_interaction |-> now]
        ELSE users[c]]

\* UPDATE users SET is_active = 0 WHERE chat_id = ?
markUserInactive(users, chatID) ==
    [c \in DOMAIN users |->
        IF c = chatID THEN [users[c] EXCEPT !.is_active = 0] ELSE users[c]]

\* the chat ids of S ORDER BY last_interaction DESC
RECURSIVE ByLastInteraction(_, _)
ByLastInteraction(users, S) ==
    IF S = {} THEN <<>>
    ELSE LET c == CHOOSE c \in S :
                     \A d \in S : users[d].last_interaction <= users[c].last_interaction
         IN  <<c>> \o ByLastInteraction(users, S \ {c})

\* SELECT chat_id FROM users WHERE is_active = 1 ORDER BY last_interaction DESC
getAllUserChatIDs(users) ==
    ByLastInteraction(users, {c \in DOMAIN users : users[c].is_active = 1})

InitBroadcast ==
    /\ InitPipeline
    /\ cmd = NoCmd
    /\ probe = NoProbe
    /\ text = <<>>
    /\ bot = NoBot

\* stats.RegisterUser(chatID, ...): the user interacts with the bot
RegisterUser(chatID) ==
    /\ bot.n < MaxEvents
    /\ bot' = [bot EXCEPT !.users = registerUser(bot.users, chatID, bot.n + 1),
                          !.event = "register",
                          !.username = "",
                          !.n = bot.n + 1]
    /\ UNCHANGED <<pc, media, analysis, newName, files, result, steps, foreign,
                   cmd, probe, text>>

\* BroadcastMessage up to the loop: the chat ids are read once
BroadcastStart ==
    /\ bot.at = "idle"
    /\ bot.n < MaxEvents
    /\ bot' = [bot EXCEPT !.chatIDs = getAllUserChatIDs(bot.users),
                          !.result = [Sent |-> 0, Failed |-> 0,
                                      BlockedByUser |-> 0, Errors |-> 0],
                          !.at = "sending",
                          !.sendErr = [nil |-> TRUE],
                          !.chatID = 0,
                          !.event = "start",
                          !.username = "",
                          !.n = bot.n + 1]
    /\ UNCHANGED <<pc, media, analysis, newName, files, result, steps, foreign,
                   cmd, probe, text>>

\* one iteration of the loop of BroadcastMessage up to isUserBlockedError
BroadcastSend ==
    /\ bot.at = "sending"
    /\ bot.chatIDs # <<>>
    /\ \E err \in SendOutcomes :
          LET r == bot.result
              blocked == isUserBlockedError(err)
          IN  bot' = [bot EXCEPT
                 !.chatIDs = Tail(bot.chatIDs),
                 !.chatID = Head(bot.chatIDs),
                 !.sendErr = err,
                 !.result =
                     IF err.nil THEN [r EXCEPT !.Sent = r.Sent + 1]
                     ELSE IF blocked
                     THEN [r EXCEPT !.Failed = r.Failed + 1,
                                    !.BlockedByUser = r.BlockedByUser + 1]
                     ELSE [r EXCEPT !.Failed = r.Failed + 1,
                                    !.Errors = r.Errors + 1],
                 !.at = IF ~err.nil /\ blocked THEN "marking" ELSE "sending",
                 !.event = "send"]
    /\ UNCHANGED <<pc, media, analysis, newName, files, result, steps, foreign,
                   cmd, probe, text>>

\* markUserInactive(chatID) of the iteration whose send was blocked
BroadcastMark ==
    /\ bot.at = "marking"
    /\ bot' = [bot EXCEPT !.users = markUserInactive(bot.users, bot.chatID),
                          !.at = "sending",
                          !.event = "mark"]
    /\ UNCHANGED <<pc, media, analysis, newName, files, result, steps, foreign,
                   cmd, probe, text>>

\* the loop of BroadcastMessage is over: return result
BroadcastReturn ==
    /\ bot.at = "sending"
    /\ bot.chatIDs = <<>>
    /\ bot' = [bot EXCEPT !.at = "idle", !.event = "return"]
    /\ UNCHANGED <<pc, media, analysis, newName, files, result, steps, foreign,
                   cmd, probe, text>>

NextBroadcast ==
    \/ \E chatID \in ChatIDs : RegisterUser(chatID)
    \/ BroadcastStart
    \/ BroadcastSend
    \/ BroadcastMark
    \/ BroadcastReturn

SpecBroadcast == InitBroadcast /\ [][NextBroadcast]_vars

(***************************************************************************)
(* the /stats command                                                      *)
(***************************************************************************)
\* the usernames of senders: none, the admin's, another user's
Usernames == {"", "admin", "alice"}

\* ADMIN_USERNAME is unset or names the admin
InitAdmin ==
    /\ InitPipeline
    /\ cmd = NoCmd
    /\ probe = NoProbe
    /\ text = <<>>
    /\ \E adminUsername \in {"", "admin"} :
          bot = [NoBot EXCEPT !.adminUsername = adminUsername]

\* saveAdminChatID: the new value of adminChatID
saveAdminChatID(adminUsername, adminChatID, username, chatID) ==
    IF adminUsername # "" /\ adminUsername = username THEN chatID ELSE adminChatID

\* sendMessageToAdmin: the messages it sends
sendMessageToAdmin(adminChatID, msg) ==
    IF adminChatID = 0 THEN <<>> ELSE << [ChatID |-> adminChatID, Text |-> msg] >>

\* statsHandler for a /stats message from username in chat chatID; outbox is
\* what this call sends
statsHandler(username, chatID) ==
    /\ bot.n < MaxEvents
    /\ LET admin == saveAdminChatID(bot.adminUsername, bot.adminChatID,
                                    username, chatID)
       IN  bot' = [bot EXCEPT
              !.adminChatID = admin,
              !.outbox =
                  IF username # bot.adminUsername
                  THEN << [ChatID |-> chatID,
                           Text |-> "You are not authorized to use this command"] >>
                       \o sendMessageToAdmin(admin,
                              "Unauthorized access to /stats command")
                  ELSE << [ChatID |-> chatID, Text |-> "*Stats*"] >>,
              !.event = "stats",
              !.username = username,
              !.chatID = chatID,
              !.n = bot.n + 1]
    /\ UNCHANGED <<pc, media, analysis, newName, files, result, steps, foreign,
                   cmd, probe, text>>

NextAdmin == \E username \in Usernames, chatID \in ChatIDs :
                 statsHandler(username, chatID)

SpecAdmin == InitAdmin /\ [][NextAdmin]_vars

(***************************************************************************)
(* the history of one request, by kind of step                             *)
(***************************************************************************)
StepsNamed(r, name) == SelectSeq(steps[r], LAMBDA e : e.step = name)

Fetches(r) == StepsNamed(r, "fetch")

Probes(r) == StepsNamed(r, "probe")

Encodes(r) == StepsNamed(r, "encode")

\* the last step request r executed
LastStep(r) == steps[r][Len(steps[r])]

\* DownloadMedia of request r has been called with a URL that passed validation
ValidCall(r) == pc[r] # "idle" /\ ~InvalidURL(media[r].url)

\* DownloadMedia of request r has returned
Returned(r) == pc[r] \in {"returned", "end"}

\* the analysis of request r produced a plan
Planned(r) == StepsNamed(r, "plan") # <<>>

\* the analysis of request r failed: os.Stat or the probe
AnalysisFailed(r) ==
    \E i \in 1..Len(steps[r]) :
        steps[r][i].step \in {"stat", "probe"} /\ ~steps[r][i].ok

\* the name carries the _converted suffix of the Transcoder's output
IsConvertedName(name) ==
    Len(name) >= 2 /\ SubSeq(name, Len(name) - 1, Len(name)) = <<"_converted", ".mp4">>

(***************************************************************************)
(* C1: for a DownloadMedia call with a valid URL the fetch tool runs at    *)
(* most twice; the first run has simplified = false; a second run happens  *)
(* exactly when the first exits non-zero and has simplified = true; there  *)
(* is no third run; and right after a run that exits 0 the pipeline is at  *)
(* sidecar ingestion.                                                      *)
(***************************************************************************)
C1_FetchAtMostTwice ==
    \A r \in AllRequests :
        LET f == Fetches(r)
        IN  /\ Len(f) <= 2
            /\ (ValidCall(r) /\ pc[r] # "fetch1") => Len(f) >= 1
            /\ Len(f) >= 1 => ~f[1].simplified
            /\ Len(f) = 2 => (~f[1].ok /\ f[2].simplified)
            /\ (Len(f) = 1 /\ ~f[1].ok) => pc[r] = "fetch2"
            /\ (Len(f) >= 1 /\ f[1].ok) => Len(f) = 1
            /\ (Len(f) >= 1 /\ LastStep(r).step = "fetch" /\ LastStep(r).ok)
                   => pc[r] = "populate"
            /\ ~InvalidURL(media[r].url) \/ Len(f) = 0

C1_Witness ==
    \E r \in AllRequests :
        /\ Len(Fetches(r)) = 2
        /\ Fetches(r)[2].ok
        /\ pc[r] = "populate"

(***************************************************************************)
(* C2                                                                      *)
(***************************************************************************)
BothFetchesFailed(r) == Len(Fetches(r)) = 2 /\ ~Fetches(r)[2].ok

RECURSIVE StripFormatSort(_)
StripFormatSort(args) ==
    IF args = <<>> THEN <<>>
    ELSE IF Head(args) \in {<<"-f">>, <<"-S">>}
         THEN StripFormatSort(IF Len(args) >= 2 THEN Tail(Tail(args)) ELSE <<>>)
         ELSE <<Head(args)>> \o StripFormatSort(Tail(args))

HasArg(args, a) == \E i \in 1..Len(args) : args[i] = a

\* C3 as claimed: whatever the host class, the audio-only flag and the cookie
\* jar, the tier-2 list has no -f and no -S and is the tier-1 list without them.
C3_SimplifiedHasNoFormatSort ==
    cmd.built =>
        /\ ~HasArg(cmd.simple, <<"-f">>)
        /\ ~HasArg(cmd.simple, <<"-S">>)
        /\ cmd.simple = StripFormatSort(cmd.full)

(***************************************************************************)
(* C4                                                                      *)
(***************************************************************************)
\* the state part of C4: an encode has run only for a video request with a
\* plan that is not AlreadyCompatible, and once DownloadMedia has returned
\* every such request has had its encode; an audio-only request has run
\* neither the probe nor the encode tool
C4_Inv ==
    \A r \in AllRequests :
        LET wanted == /\ ~media[r].audioOnly
                      /\ Planned(r)
                      /\ ~analysis[r].IsAlreadyCompatible
        IN  /\ Encodes(r) # <<>> => wanted
            /\ (Returned(r) /\ wanted) => Encodes(r) # <<>>
            /\ (pc[r] # "idle" /\ media[r].audioOnly) =>
                   /\ Probes(r) = <<>>
                   /\ Encodes(r) = <<>>
                   /\ pc[r] \notin {"analyze", "convert"}
                   /\ (result[r].ret = "ok" => LastStep(r).step \in {"rename", "delete"})

\* the step part of C4: the step that finds the plan AlreadyCompatible
\* returns with the record's Path as it was
C4_Act ==
    \A r \in AllRequests :
        (pc[r] = "analyze" /\ pc'[r] = "returned" /\ Planned(r)')
            => (analysis'[r].IsAlreadyCompatible /\ media'[r].Path = media[r].Path)

\* C4: the encode tool is invoked during a DownloadMedia run if and only if
\* the request is not audio-only, the analysis succeeded and the plan is not
\* AlreadyCompatible; an audio-only request stops after the rename step and
\* invokes neither the probe nor the encode tool; an AlreadyCompatible plan
\* leaves the record's Path unchanged.
C4_EncodeIffNeeded == []C4_Inv /\ [][C4_Act]_vars

C4_Witness ==
    \E r \in AllRequests :
        /\ pc[r] = "returned"
        /\ ~media[r].audioOnly
        /\ Planned(r)
        /\ ~analysis[r].IsAlreadyCompatible
        /\ Len(Encodes(r)) = 1

(***************************************************************************)
(* C5                                                                      *)
(***************************************************************************)
\* the state part of C5: after a failed analysis no encode has run and the
\* request has returned success with the Path the download (or the rename)
\* gave it
C5_Inv ==
    \A r \in AllRequests :
        AnalysisFailed(r) =>
            /\ Encodes(r) = <<>>
            /\ ~Planned(r)
            /\ Returned(r)
            /\ result[r] = Success
            /\ ~IsConvertedName(media[r].Path)
            /\ media[r].Path =
                   IF \E i \in 1..Len(steps[r]) :
                          steps[r][i].step = "rename" /\ steps[r][i].ok
                   THEN Join(TmpDir, media[r].FileName)
                   ELSE DownloadPath(media[r])

\* the step part of C5: the step in which the analysis fails leaves the
\* record as it was
C5_Act ==
    \A r \in AllRequests :
        (pc[r] = "analyze" /\ AnalysisFailed(r)') => media'[r] = media[r]

\* C5: if the probe/analysis step fails for a video request (the probe cannot
\* run, exits non-zero, or its output cannot be decoded), DownloadMedia does
\* not fail: it skips planning and transcoding, never invokes the encode
\* tool, and returns success with Path still naming the downloaded file.
C5_ProbeFailureServesOriginal == []C5_Inv /\ [][C5_Act]_vars

C5_Witness ==
    \E r \in AllRequests :
        /\ AnalysisFailed(r)
        /\ LastStep(r).step = "probe"
        /\ LastStep(r).err.msg = "malformed output"
        /\ media[r].FileName # <<>>
        /\ result[r] = Success

(***************************************************************************)
(* C6                                                                      *)
(***************************************************************************)
EncodeFailed(r) == \E i \in 1..Len(Encodes(r)) : ~Encodes(r)[i].ok

\* C6: in the canonical variant a non-zero exit of the encode tool fails the
\* request after exactly one encode invocation: DownloadMedia returns the
\* error and no record, and Path and FileName are not changed to the
\* converted name.
C6_EncodeFailureIsFatal ==
    \A r \in AllRequests :
        EncodeFailed(r) =>
            /\ Len(Encodes(r)) = 1
            /\ pc[r] = "end"
            /\ result[r].ret = "err"
            /\ Encodes(r)[1].err \in Chain(result[r].err)
            /\ ~IsConvertedName(media[r].Path)
            /\ ~IsConvertedName(media[r].FileName)

C6_Witness ==
    \E r \in AllRequests :
        /\ EncodeFailed(r)
        /\ result[r].ret = "err"
        /\ media[r].FileName # <<>>

(***************************************************************************)
(* C7                                                                      *)
(***************************************************************************)
\* the state part of C7
C7_Inv ==
    \A r \in AllRequests :
        LET e == Encodes(r)
        IN  /\ Len(e) <= 2
            /\ Len(e) = 2 =>
                   /\ ~e[1].ok
                   /\ e[1].target = "h265"
                   /\ e[2].target = "h264"
            /\ \A i \in 1..Len(e) :
                   (~e[i].ok /\ e[i].target # "h265") =>
                       /\ i = Len(e)
                       /\ pc[r] = "end"
                       /\ result[r].ret = "err"
                       /\ e[i].err \in Chain(result[r].err)
            /\ (Len(e) = 1 /\ ~e[1].ok /\ e[1].target = "h265") =>
                   /\ pc[r] = "convert"
                   /\ analysis[r].VideoConversionType = "h264"

\* the step part of C7: the target never becomes h265 again, and every step
\* of the retry loop is one more run of the encode tool
C7_Act ==
    \A r \in AllRequests :
        /\ (analysis[r].VideoConversionType = "h264")
               => (analysis'[r].VideoConversionType = "h264")
        /\ (pc[r] = "convert" /\ steps'[r] # steps[r])
               => (Len(Encodes(r)') = Len(Encodes(r)) + 1)

\* the retry loop ends: a request at the Transcoder gets out of it
C7_Terminates ==
    \A r \in AllRequests : (pc[r] = "convert") ~> (pc[r] \in {"returned", "end"})

\* C7: in the fallback variant a failed encode whose target is h265 demotes
\* the target to h264 and retries exactly once; the encode tool runs at most
\* twice per request, the retry loop terminates, a failure of the h264 attempt
\* (or of any attempt whose target is not h265) is surfaced as a transcode
\* failure, and no demotion goes from h264 back to h265.
C7_FallbackRetriesOnce == []C7_Inv /\ [][C7_Act]_vars /\ C7_Terminates

C7_Witness ==
    \E r \in AllRequests :
        /\ Len(Encodes(r)) = 2
        /\ ~Encodes(r)[2].ok
        /\ Encodes(r)[2].target = "h264"
        /\ result[r].ret = "err"

\* every handler runs on: the external tools return and the handler's
\* goroutine is scheduled until it has returned
SpecFallbackFair ==
    SpecFallback /\ \A r \in Requests : WF_vars(FallbackStep(r))

(***************************************************************************)
(* C8                                                                      *)
(***************************************************************************)
\* C8 as claimed: the step in which the transcode succeeds leaves Path and
\* FileName naming {basename}_converted.mp4, basename being the name of the
\* pre-transcode file without its extension, and the pre-transcode file (the
\* record's Path when the transcode started) is gone from the working
\* directory; os.Remove of a file that exists does not fail here.
C8_Act ==
    \A r \in AllRequests :
        (pc[r] = "convert" /\ pc'[r] = "returned") =>
            /\ media'[r].FileName = OutputFileName(media[r])
            /\ media'[r].Path = Join(TmpDir, media'[r].FileName)
            /\ IsConvertedName(media'[r].FileName)
            /\ Exists(files', media'[r].Path)
            /\ ~Exists(files', media[r].Path)

C8_PreTranscodeFileRemoved == [][C8_Act]_vars

(***************************************************************************)
(* C9                                                                      *)
(***************************************************************************)
\* the files in the working directory that request r's tools or renames put there
FilesOf(r) == {p \in DOMAIN files : files[p].owner = r}

\* C9 as claimed: when the handling of a request has ended, after a failed
\* run as after delivery and Delete(), no working file of that request is
\* left in the working directory.
C9_NoFileLeftBehind ==
    \A r \in AllRequests : pc[r] = "end" => FilesOf(r) = {}

(***************************************************************************)
(* C10                                                                     *)
(***************************************************************************)
\* request r holds a resolved artifact path
HoldsPath(r) ==
    pc[r] \in {"rename", "rename2", "analyze", "convert", "returned"}

\* C10 as claimed: for any interleaving of requests sharing the working
\* directory, no two requests in flight hold the same artifact path, and no
\* file operation of a request creates, overwrites or removes a file another
\* request put there, even when the requests carry the same title.
C10_NoInterference ==
    /\ ~foreign
    /\ \A r1, r2 \in AllRequests :
           (r1 # r2 /\ HoldsPath(r1) /\ HoldsPath(r2))
               => media[r1].Path # media[r2].Path

(***************************************************************************)
(* C11                                                                     *)
(***************************************************************************)
Ingests(r) == StepsNamed(r, "ingest")

\* the state part of C11: a failed ingestion is the last thing the request
\* did; DownloadMedia has returned the error and no record, and no rename,
\* probe or encode has run; after a successful one the sidecar is gone
C11_Inv ==
    \A r \in AllRequests :
        /\ Len(Ingests(r)) <= 1
        /\ (Ingests(r) # <<>> /\ ~Ingests(r)[1].ok) =>
               /\ pc[r] = "end"
               /\ result[r].ret = "err"
               /\ result[r].err.msg = "error populating info"
               /\ Ingests(r)[1].err \in Chain(result[r].err)
               /\ LastStep(r).step = "ingest"
               /\ StepsNamed(r, "rename") = <<>>
               /\ StepsNamed(r, "stat") = <<>>
               /\ Probes(r) = <<>>
               /\ Encodes(r) = <<>>
        /\ (Ingests(r) # <<>> /\ Ingests(r)[1].ok) =>
               ~Exists(files, SidecarPath(media[r]))

\* the step part of C11: the ingestion step reads {id}.info.json; without the
\* file it fails; when it succeeds the file was there and is deleted, and the
\* pipeline goes on; when it fails nothing is deleted
C11_Act ==
    \A r \in AllRequests :
        (pc[r] = "populate" /\ pc'[r] # "populate") =>
            LET jsonPath == Join(TmpDir, media[r].randomName \o <<".info", ".json">>)
                done == LastStep(r)'
            IN  /\ done.step = "ingest"
                /\ jsonPath \notin DOMAIN files => ~done.ok
                /\ done.ok =>
                       /\ jsonPath \in DOMAIN files
                       /\ jsonPath \notin DOMAIN files'
                       /\ pc'[r] \notin {"end", "returned"}
                       /\ result'[r] = result[r]
                /\ ~done.ok => (files' = files /\ pc'[r] = "end")

\* C11: sidecar ingestion reads {workdir}/{id}.info.json and deletes it after
\* it has been decoded; an absent sidecar or one that cannot be decoded
\* (a malformed duration_string included) is a hard failure: DownloadMedia
\* returns an error and no record, and no rename, probe or encode is performed.
C11_IngestFailureIsFatal == []C11_Inv /\ [][C11_Act]_vars

C11_Witness ==
    \E r \in AllRequests :
        /\ Ingests(r) # <<>>
        /\ ~Ingests(r)[1].ok
        /\ Ingests(r)[1].err.msg = "error parsing json content"
        /\ result[r].ret = "err"
        /\ pc[r] = "end"

(***************************************************************************)
(* C12                                                                     *)
(***************************************************************************)
Renames(r) == StepsNamed(r, "rename")

\* the state part of C12: the error of a failed rename is never part of what
\* DownloadMedia returns, and until a transcode succeeds the record keeps
\* the id-based path and no readable file name
C12_Inv ==
    \A r \in AllRequests :
        (Renames(r) # <<>> /\ ~Renames(r)[1].ok) =>
            /\ Len(Renames(r)) = 1
            /\ Renames(r)[1].err \notin Chain(result[r].err)
            /\ (\A i \in 1..Len(Encodes(r)) : ~Encodes(r)[i].ok) =>
                   /\ media[r].Path =
                          Join(TmpDir, media[r].randomName \o
                                  (IF media[r].audioOnly THEN <<".mp3">> ELSE <<".mp4">>))
                   /\ media[r].FileName = <<>>

\* the step part of C12: the step in which the rename fails changes neither
\* the record nor the working directory, returns no error, and goes on to the
\* analysis, or returns success for an audio-only request
C12_Act ==
    \A r \in AllRequests :
        (/\ pc[r] \in {"rename", "rename2"}
         /\ steps'[r] # steps[r]
         /\ ~LastStep(r)'.ok) =>
            /\ LastStep(r)'.step = "rename"
            /\ media'[r] = media[r]
            /\ files' = files
            /\ result'[r].ret # "err"
            /\ pc'[r] = (IF media[r].audioOnly THEN "returned" ELSE "analyze")
            /\ media[r].audioOnly => result'[r].ret = "ok"

\* C12: a failure of the rename to the readable name (no title, a title that
\* sanitizes to nothing, or os.Rename failing) is never surfaced as a request
\* failure and leaves Path and FileName as they were, so the id-based path
\* stays the record's path and the pipeline goes on with probing or returns.
C12_RenameFailureKeepsRecord == []C12_Inv /\ [][C12_Act]_vars

C12_Witness ==
    \E r \in AllRequests :
        /\ Renames(r) # <<>>
        /\ ~Renames(r)[1].ok
        /\ Renames(r)[1].err.msg = "failed to rename file"
        /\ pc[r] = "analyze"
        /\ media[r].Title # <<>>

(***************************************************************************)
(* C13                                                                     *)
(***************************************************************************)
\* C13: DownloadMedia given a URL that fails to parse, or has an empty scheme
\* or an empty host, returns an invalid-URL error and no record, and invokes
\* none of the fetch, probe and encode tools.
C13_InvalidURLStopsEarly ==
    \A r \in AllRequests :
        LET u == media[r].url
        IN  (pc[r] # "idle" /\ (u.err \/ u.Scheme = <<>> \/ u.Host = <<>>)) =>
                /\ pc[r] = "end"
                /\ result[r].ret = "err"
                /\ result[r].err.msg = "invalid URL"
                /\ steps[r] = <<>>
                /\ FilesOf(r) = {}

C13_Witness ==
    \E r \in AllRequests :
        /\ pc[r] = "end"
        /\ media[r].url.Scheme = <<>>
        /\ ~media[r].url.err
        /\ result[r].ret = "err"

(***************************************************************************)
(* C14                                                                     *)
(***************************************************************************)
\* the tag starts with av01, vp9 or vp09
TagNeedsVideo(tag) == tag # <<>> /\ tag[1] \in {"av01", "vp9", "vp09"}

\* Media.VCodec starts with av01 or vp09
RecordNeedsVideo(vcodec) == vcodec # <<>> /\ vcodec[1] \in {"av01", "vp09"}

\* C14 as claimed: the video decision is a function of the selected codec tag
\* alone: needs conversion exactly when the tag starts with av01, vp9 or
\* vp09, whatever else the record holds.
C14_VideoDecisionByTagAlone ==
    \A r \in PolicyRuns :
        pc[r] = "video" =>
            (analysis[r].NeedsVideoConversion
                 = TagNeedsVideo(analysis[r].OriginalVideoCodec))

\* C14 as amended: the video decision is a function of the selected codec tag
\* and of the record's VCodec: needs conversion exactly when the tag starts
\* with av01, vp9 or vp09, or VCodec starts with av01 or vp09.
C14_VideoDecisionByTagAndRecord ==
    \A r \in PolicyRuns :
        pc[r] = "video" =>
            (analysis[r].NeedsVideoConversion
                 = (\/ TagNeedsVideo(analysis[r].OriginalVideoCodec)
                    \/ RecordNeedsVideo(media[r].VCodec)))

C14_Witness ==
    \E r \in PolicyRuns :
        /\ pc[r] = "video"
        /\ analysis[r].OriginalVideoCodec = <<"h264">>
        /\ media[r].VCodec = <<"vp09", ".00.40.08">>
        /\ analysis[r].NeedsVideoConversion

(***************************************************************************)
(* C15                                                                     *)
(***************************************************************************)
\* C15 as claimed: the video policy is matched case-insensitively: a tag gets
\* the decision of its lower-case form.
C15_CaseInsensitive ==
    \A r \in PolicyRuns :
        pc[r] = "video" =>
            (analysis[r].NeedsVideoConversion
                 = (\/ TagNeedsVideo(ToLower(analysis[r].OriginalVideoCodec))
                    \/ RecordNeedsVideo(media[r].VCodec)))

(***************************************************************************)
(* C16                                                                     *)
(***************************************************************************)
\* C16: when Media.VCodec starts with av01 or vp09, needsVideoConversion
\* returns true for every probed tag passed to it, a compatible one included.
C16_RecordCodecForcesConversion ==
    \A r \in PolicyRuns :
        (pc[r] = "video" /\ RecordNeedsVideo(media[r].VCodec)) =>
            analysis[r].NeedsVideoConversion

C16_Witness ==
    \E r \in PolicyRuns :
        /\ pc[r] = "video"
        /\ media[r].VCodec = <<"av01", ".0.08M.08">>
        /\ analysis[r].OriginalVideoCodec = <<"hevc">>
        /\ analysis[r].NeedsVideoConversion

(***************************************************************************)
(* C17                                                                     *)
(***************************************************************************)
\* C17: the audio decision is a function of the codec tag by exact match:
\* opus, vorbis and flac need conversion; aac and every other tag (mp3,
\* unknown, the empty tag, tags that contain or extend those names) do not.
C17_AudioDecisionByExactMatch ==
    \A r \in PolicyRuns :
        pc[r] = "audio" =>
            (analysis[r].NeedsAudioConversion
                 = (analysis[r].OriginalAudioCodec
                        \in {<<"opus">>, <<"vorbis">>, <<"flac">>}))

C17_Witness ==
    \E r \in PolicyRuns :
        /\ pc[r] = "audio"
        /\ analysis[r].OriginalAudioCodec = <<"lib", "opus">>
        /\ ~analysis[r].NeedsAudioConversion


(***************************************************************************)
(* C18                                                                     *)
(***************************************************************************)
\* the state part of C18
C18_Inv ==
    \A r \in AllRequests :
        Planned(r) =>
            (analysis[r].IsAlreadyCompatible
                 = (~analysis[r].NeedsVideoConversion /\ ~analysis[r].NeedsAudioConversion))

\* the step part of C18: no step after planning changes the Needs* flags
C18_Act ==
    \A r \in AllRequests :
        Planned(r) =>
            /\ analysis'[r].NeedsVideoConversion = analysis[r].NeedsVideoConversion
            /\ analysis'[r].NeedsAudioConversion = analysis[r].NeedsAudioConversion

\* C18: in every state after determineConversionStrategy has produced a plan,
\* also after the Transcoder's fallback step has demoted the target video
\* codec, IsAlreadyCompatible == (not NeedsVideoConversion and not
\* NeedsAudioConversion), and the Needs* flags never change after planning.
C18_PlanInvariant == []C18_Inv /\ [][C18_Act]_vars

C18_Witness ==
    \E r \in AllRequests :
        /\ Planned(r)
        /\ pc[r] = "convert"
        /\ Len(Encodes(r)) = 1
        /\ ~Encodes(r)[1].ok
        /\ analysis[r].VideoConversionType = "h264"
        /\ analysis[r].NeedsVideoConversion
        /\ ~analysis[r].IsAlreadyCompatible


(***************************************************************************)
(* C19                                                                     *)
(***************************************************************************)
\* the targets of the plan of run r follow its Needs* flags, and a bitrate is
\* there only when the video needs conversion
TargetsFollowFlags(r) ==
    LET a == analysis[r]
    IN  /\ a.VideoConversionType = (IF a.NeedsVideoConversion THEN "h265" ELSE "none")
        /\ a.AudioConversionType = (IF a.NeedsAudioConversion THEN "aac" ELSE "copy")
        /\ a.NeedsVideoConversion => a.TargetBitrate \in 200000..2000000
        /\ ~a.NeedsVideoConversion => a.TargetBitrate = 0

\* both runs, on the same record and tags, have planned
BothPlanned == \A r \in PolicyRuns : pc[r] = "planned"

\* C19 as claimed: after determineConversionStrategy the target video type is
\* h265 exactly when NeedsVideoConversion and none otherwise, the target audio
\* type is aac exactly when NeedsAudioConversion and copy otherwise, a target
\* bitrate is computed only when NeedsVideoConversion, and none of these
\* outputs depends on the original file size.
C19_OutputsIgnoreFileSize ==
    /\ \A r \in PolicyRuns : pc[r] = "planned" => TargetsFollowFlags(r)
    /\ BothPlanned =>
           /\ analysis[1].VideoConversionType = analysis[2].VideoConversionType
           /\ analysis[1].AudioConversionType = analysis[2].AudioConversionType
           /\ analysis[1].TargetBitrate = analysis[2].TargetBitrate

\* C19 as amended: the target types follow the Needs* flags, a target bitrate
\* is computed only when NeedsVideoConversion, and the types and whether a
\* bitrate is computed do not depend on the original file size; the value of
\* the bitrate does.
C19_TypesIgnoreFileSize ==
    /\ \A r \in PolicyRuns : pc[r] = "planned" => TargetsFollowFlags(r)
    /\ BothPlanned =>
           /\ analysis[1].VideoConversionType = analysis[2].VideoConversionType
           /\ analysis[1].AudioConversionType = analysis[2].AudioConversionType
           /\ (analysis[1].TargetBitrate = 0) = (analysis[2].TargetBitrate = 0)

C19_Witness ==
    /\ BothPlanned
    /\ analysis[1].OriginalFileSize # analysis[2].OriginalFileSize
    /\ analysis[1].NeedsVideoConversion
    /\ analysis[1].VideoConversionType = "h265"
    /\ analysis[1].TargetBitrate # analysis[2].TargetBitrate


(***************************************************************************)
(* C20                                                                     *)
(***************************************************************************)
\* the positions of the streams of a kind that carry the default disposition
DefaultsOf(kind) ==
    {i \in 1..Len(probe.Streams) :
         probe.Streams[i].CodecType = kind /\ probe.Streams[i].Default = 1}

\* the smallest element of a non-empty set of positions
MinOf(S) == CHOOSE i \in S : \A j \in S : i <= j

\* C20: for video and for audio selection, if any stream of the kind has its
\* default-disposition flag set, the selector returns the first such stream
\* in probe order, whatever the resolution, channel count or bitrate of the
\* other streams.
C20_FirstDefaultWins ==
    /\ ("video" \in probe.done /\ DefaultsOf("video") # {}) =>
           probe.video = probe.Streams[MinOf(DefaultsOf("video"))]
    /\ ("audio" \in probe.done /\ DefaultsOf("audio") # {}) =>
           probe.audio = probe.Streams[MinOf(DefaultsOf("audio"))]

C20_Witness ==
    /\ probe.done = {"video", "audio"}
    /\ Len(probe.Streams) = 3
    /\ probe.Streams[1].CodecType = "video"
    /\ probe.Streams[1].Default = 0
    /\ probe.Streams[1].Width = 1920
    /\ DefaultsOf("video") = {2, 3}
    /\ probe.Streams[3].BitRate = <<"6", "0", "0", "0">>
    /\ probe.video.Index = 1


(***************************************************************************)
(* C21                                                                     *)
(***************************************************************************)
\* the bitrate a stream is ranked by: its field read as a decimal number,
\* 0 when the field is empty or is not a number
KeyBitrate(st) ==
    IF st.BitRate # <<>> /\ \A i \in 1..Len(st.BitRate) : st.BitRate[i] \in Digits
    THEN DecimalVal(st.BitRate) ELSE 0

\* the ranking key of a stream of a kind
KeyOf(kind, st) ==
    IF kind = "video" THEN <<st.Width * st.Height, KeyBitrate(st)>>
    ELSE <<st.Channels, KeyBitrate(st)>>

\* the lexicographic order on keys
LexGeq(a, b) == a[1] > b[1] \/ (a[1] = b[1] /\ a[2] >= b[2])

\* the positions of the streams of a kind
PositionsOf(kind) ==
    {i \in 1..Len(probe.Streams) : probe.Streams[i].CodecType = kind}

\* the positions of the streams of a kind no other stream of the kind outranks
MaximalOf(kind) ==
    {i \in PositionsOf(kind) :
         \A j \in PositionsOf(kind) :
             LexGeq(KeyOf(kind, probe.Streams[i]), KeyOf(kind, probe.Streams[j]))}

\* C21: when no stream of the kind has the default flag, the selector returns
\* the earliest stream in probe order among those that are maximal under the
\* lexicographic key (width*height, bitrate) for video and (channel count,
\* bitrate) for audio, an empty or non-numeric bitrate counting as 0: a higher
\* resolution or channel count beats a higher bitrate, and a full tie keeps
\* the earlier-seen stream.
C21_BestIsEarliestMaximal ==
    /\ ("video" \in probe.done /\ DefaultsOf("video") = {}
            /\ PositionsOf("video") # {}) =>
           probe.video = probe.Streams[MinOf(MaximalOf("video"))]
    /\ ("audio" \in probe.done /\ DefaultsOf("audio") = {}
            /\ PositionsOf("audio") # {}) =>
           probe.audio = probe.Streams[MinOf(MaximalOf("audio"))]

C21_Witness ==
    /\ probe.done = {"video", "audio"}
    /\ Len(probe.Streams) = 3
    /\ PositionsOf("video") = {1, 2, 3}
    /\ DefaultsOf("video") = {}
    /\ probe.Streams[1].Width = 1280
    /\ probe.Streams[1].BitRate = <<"6", "0", "0", "0">>
    /\ probe.Streams[2].BitRate = <<"N/A">>
    /\ probe.Streams[3].BitRate = <<>>
    /\ MaximalOf("video") = {2, 3}
    /\ probe.video.Index = 1


(***************************************************************************)
(* C22                                                                     *)
(***************************************************************************)
\* what the selector of a kind returned
PickOf(kind) == IF kind = "video" THEN probe.video ELSE probe.audio

\* C22: each selector returns "none" if and only if the probe report has no
\* stream of its kind, and otherwise returns a stream of the report whose
\* kind matches: the video selector never returns an audio stream and vice
\* versa.
C22_NoneIffNoStreamOfKind ==
    \A kind \in {"video", "audio"} :
        kind \in probe.done =>
            /\ (PickOf(kind) = NoStream) <=> (PositionsOf(kind) = {})
            /\ PositionsOf(kind) # {} =>
                   \E i \in PositionsOf(kind) : PickOf(kind) = probe.Streams[i]

C22_Witness ==
    /\ probe.done = {"video", "audio"}
    /\ Len(probe.Streams) = 3
    /\ PositionsOf("video") = {}
    /\ PositionsOf("audio") = {2, 3}
    /\ probe.Streams[1].CodecType = "subtitle"
    /\ probe.video = NoStream
    /\ probe.audio.CodecType = "audio"


(***************************************************************************)
(* C23                                                                     *)
(***************************************************************************)
\* C23: for every non-negative original file size and every duration, 0
\* included, calculateTargetBitrate returns a value between 200000 and
\* 2000000 inclusive; for every non-negative duration some size is large
\* enough to give the cap 2000000, which every larger size gives too, and
\* some size is small enough to give the floor 200000, which every smaller
\* size gives too.
C23_BitrateWithinBounds ==
    /\ pc[1] = "budgeted" =>
           /\ analysis[1].TargetBitrate >= 200000
           /\ analysis[1].TargetBitrate <= 2000000
    /\ (pc[1] = "budgeted" /\ media[1].Duration >= 0) =>
           /\ \E big \in BitrateSizes :
                 \A size \in BitrateSizes :
                     size >= big =>
                         calculateTargetBitrate(media[1].Duration, size) = 2000000
           /\ \E small \in BitrateSizes :
                 \A size \in BitrateSizes :
                     size <= small =>
                         calculateTargetBitrate(media[1].Duration, size) = 200000
           /\ (analysis[1].TargetBitrate = 2000000) =>
                 \A size \in BitrateSizes :
                     size >= analysis[1].OriginalFileSize =>
                         calculateTargetBitrate(media[1].Duration, size) = 2000000

C23_Witness ==
    /\ pc[1] = "budgeted"
    /\ media[1].Duration = 0
    /\ analysis[1].OriginalFileSize = 18000000
    /\ analysis[1].TargetBitrate = 2000000


(***************************************************************************)
(* C24                                                                     *)
(***************************************************************************)
\* a value limited to the interval lo..hi
Clamp(x, lo, hi) == IF x < lo THEN lo ELSE IF x > hi THEN hi ELSE x

\* the size-budget rule on a target container size in bytes: the bits of the
\* container less 128000 bits of audio for each second, shared out over the
\* seconds, a duration of 0 counting as 1
BudgetRule(container, duration) ==
    LET seconds == IF duration = 0 THEN 1 ELSE duration
    IN  Clamp(TruncDiv(container * 8 - 128000 * seconds, seconds), 200000, 2000000)

\* C24: the target video bitrate follows the size-budget rule: the target
\* container size is 1.15 times the original size in whole bytes (the
\* floating-point product, never above the exact product and less than two
\* bytes below it), the 128 kbit/s audio allowance is subtracted, the
\* remainder is divided by the duration in seconds, 0 treated as 1, and the
\* quotient is clamped to 200000..2000000; the result for duration 0 equals
\* the result for duration 1 for every size.
C24_BitrateFollowsBudgetRule ==
    pc[1] = "budgeted" =>
        LET size == analysis[1].OriginalFileSize
            container == TargetFileSize(size)
        IN  /\ container * 100 <= size * 115
            /\ size * 115 < (container + 2) * 100
            /\ (size % 20 # 0) => size * 115 < (container + 1) * 100
            /\ analysis[1].TargetBitrate = BudgetRule(container, media[1].Duration)
            /\ media[1].Duration = 0 =>
                   analysis[1].TargetBitrate = calculateTargetBitrate(1, size)

C24_Witness ==
    /\ pc[1] = "budgeted"
    /\ media[1].Duration = 60
    /\ analysis[1].OriginalFileSize = 10485760
    /\ analysis[1].TargetBitrate = 1479816


(***************************************************************************)
(* C25                                                                     *)
(***************************************************************************)
\* the positions of the colons of a string, with both ends as sentinels
Colons(s) == {i \in 1..Len(s) : s[i] = ":"} \cup {0, Len(s) + 1}

\* the number of colon-separated fields of a string
NumFields(s) == Cardinality(Colons(s)) - 1

\* the k-th sentinel or colon of a string, k counting from 0
Bound(s, k) ==
    CHOOSE i \in Colons(s) : Cardinality({j \in Colons(s) : j < i}) = k

\* the k-th colon-separated field of a string, k counting from 1
Field(s, k) == SubSeq(s, Bound(s, k - 1) + 1, Bound(s, k) - 1)

\* a base-10 integer: an optional sign and at least one digit
IsInteger(p) ==
    LET body == IF p # <<>> /\ p[1] \in {"+", "-"} THEN Tail(p) ELSE p
    IN  body # <<>> /\ \A i \in 1..Len(body) : body[i] \in Digits

\* the number a base-10 integer denotes
IntegerOf(p) ==
    IF p[1] = "-" THEN 0 - DecimalVal(Tail(p))
    ELSE IF p[1] = "+" THEN DecimalVal(Tail(p))
    ELSE DecimalVal(p)

\* every field of the string is a base-10 integer
AllIntegers(s) == \A k \in 1..NumFields(s) : IsInteger(Field(s, k))

\* C25: the duration codec maps a one-part string s to s seconds, a two-part
\* string m:s to m*60+s and a three-part string h:m:s to h*3600+m*60+s, for
\* all base-10 integer parts.
C25_DurationIsSecondsOfParts ==
    (pc[1] = "decoded" /\ NumFields(text) \in {1, 2, 3} /\ AllIntegers(text)) =>
        /\ result[1] = Success
        /\ NumFields(text) = 1 => media[1].Duration = IntegerOf(Field(text, 1))
        /\ NumFields(text) = 2 =>
               media[1].Duration =
                   IntegerOf(Field(text, 1)) * 60 + IntegerOf(Field(text, 2))
        /\ NumFields(text) = 3 =>
               media[1].Duration =
                   IntegerOf(Field(text, 1)) * 3600
                       + IntegerOf(Field(text, 2)) * 60 + IntegerOf(Field(text, 3))

C25_Witness ==
    /\ pc[1] = "decoded"
    /\ text = <<"1", ":", "3", "0", ":", "4", "5">>
    /\ media[1].Duration = 5445

(***************************************************************************)
(* C26                                                                     *)
(***************************************************************************)
\* C26: the duration codec fails for every string with a part count other
\* than 1, 2 or 3 and for every string in which a part, an empty part
\* included, is not an integer; on failure the destination duration keeps the
\* value it had.
C26_MalformedDurationFails ==
    [][(pc[1] = "string" /\ pc'[1] = "decoded"
            /\ (NumFields(text) \notin {1, 2, 3} \/ ~AllIntegers(text))) =>
           /\ result'[1].ret = "err"
           /\ media'[1].Duration = media[1].Duration]_vars

C26_Witness ==
    /\ pc[1] = "decoded"
    /\ text = <<"3", ":">>
    /\ result[1].ret = "err"
    /\ media[1].Duration = 7


(***************************************************************************)
(* C27                                                                     *)
(***************************************************************************)
\* what becomes of one character of a title
MapChar(c) ==
    IF c \in {"/", "\\", "<", ">", ":", "\"", "|"} THEN <<"-">>
    ELSE IF c \in {"?", "*", "\t", "\n"} THEN <<>>
    ELSE <<c>>

\* a title with each of its characters replaced, dropped or kept
Mapped(s) == Flatten([i \in 1..Len(s) |-> MapChar(s[i])])

\* a string without its spaces
Unspaced(s) == SelectSeq(s, LAMBDA c : c # " ")

\* nothing of the string is trimmed, collapsed or cut by the later steps
Settled(m) ==
    /\ m # <<>>
    /\ m[1] \notin {" ", ".", "C2"}
    /\ m[Len(m)] \notin {" ", ".", "A0"}
    /\ ~Contains(m, <<" ", " ">>)
    /\ Len(m) <= 100

\* C27: for every title the sanitizer's output contains no control character
\* and none of / \ < > : " | ? *; each of / \ < > : " | of the title is
\* replaced by '-', each ? and * and each control character is dropped, and
\* every other character is kept in order: the output is the replaced title
\* when the later steps have nothing to trim, collapse or cut, and otherwise
\* a stretch of it with runs of spaces shortened.
C27_CharactersReplacedOrDropped ==
    pc[1] = "sanitized" =>
        /\ \A i \in 1..Len(newName[1]) :
               newName[1][i] \notin
                   {"/", "\\", "<", ">", ":", "\"", "|", "?", "*", "\t", "\n"}
        /\ Settled(Mapped(text)) => newName[1] = Mapped(text)
        /\ Contains(Unspaced(Mapped(text)), Unspaced(newName[1]))

C27_Witness ==
    /\ pc[1] = "sanitized"
    /\ text = <<"a", "/", "\\", "<", ">", ":", "\"", "|", "?", "*", "\n", "\t", "b">>
    /\ newName[1] = <<"a", "-", "-", "-", "-", "-", "-", "-", "b">>


(***************************************************************************)
(* C28                                                                     *)
(***************************************************************************)
\* the bytes that continue a character begun by an earlier byte
ContinuationBytes == {"94", "A0"}

\* the positions at which the characters of a string begin
CharStarts(s) == {i \in 1..Len(s) : s[i] \notin ContinuationBytes}

\* the length of a string in characters
Chars(s) == Cardinality(CharStarts(s))

\* the first n characters of a string of more than n characters
FirstChars(s, n) ==
    SubSeq(s, 1,
           (CHOOSE i \in CharStarts(s) :
                Cardinality({j \in CharStarts(s) : j < i}) = n) - 1)

\* the positions of the spaces of a string that lie after more than n of its
\* characters
SpacesAfter(s, n) ==
    {i \in 1..Len(s) : s[i] = " " /\ Chars(SubSeq(s, 1, i - 1)) > n}

\* the title after replacement, trimming and collapsing
Cleaned(title) == CollapseSpaces(Trim(CleanRunes(title), {" ", "."}))

\* a cleaned title shortened as the claim says, lengths and indexes counted
\* in characters
Shortened(cleaned) ==
    IF Chars(cleaned) <= 100 THEN cleaned
    ELSE LET truncated == FirstChars(cleaned, 100)
             spaces == SpacesAfter(truncated, 70)
         IN  IF spaces # {}
             THEN SubSeq(truncated, 1,
                         (CHOOSE i \in spaces : \A j \in spaces : j <= i) - 1)
             ELSE truncated

\* C28: the sanitizer's output is never longer than 100 characters; a cleaned
\* title of more than 100 characters is cut to its first 100, or at the last
\* space of that slice at an index greater than 70 if there is one; a cleaned
\* title of at most 100 characters is not shortened.
C28_TruncatedAtHundredCharacters ==
    pc[1] = "sanitized" =>
        /\ Chars(newName[1]) <= 100
        /\ newName[1] = TrimSpace(Shortened(Cleaned(text)))


(***************************************************************************)
(* C29                                                                     *)
(***************************************************************************)
\* a title made only of control characters, spaces, periods, '?' and '*'
OnlyRemovable(title) ==
    \A i \in 1..Len(title) : title[i] \in {"\t", "\n", " ", ".", "?", "*"}

\* a title whose cleaned form is empty: nothing is left of the replaced
\* title once the spaces and periods and then the white space at its ends
\* are taken away
Uncleanable(title) == TrimSpace(Trim(Mapped(title), {" ", "."})) = <<>>

\* C29: sanitization fails, producing no filename and making the caller's
\* rename step report an error, for the empty title and for every title whose
\* cleaned form is empty, such as a title made only of control characters,
\* spaces, periods, '?' and '*'; for every other title it yields a non-empty
\* name.
C29_EmptyCleanedTitleFails ==
    /\ pc[1] = "sanitized" =>
           /\ (newName[1] = <<>>) <=> Uncleanable(text)
           /\ OnlyRemovable(text) => newName[1] = <<>>
    /\ pc[1] = "analyze" =>
           /\ Uncleanable(text)
           /\ newName[1] = <<>>
           /\ Len(steps[1]) = 1
           /\ steps[1][1].step = "rename"
           /\ ~steps[1][1].ok
           /\ steps[1][1].err # NoErr
    /\ pc[1] = "rename2" =>
           /\ ~Uncleanable(text)
           /\ steps[1] = <<>>
           /\ Len(newName[1]) > 1

C29_Witness ==
    /\ pc[1] = "analyze"
    /\ text = <<"?", "\t", ".", " ">>
    /\ ~steps[1][1].ok
    /\ steps[1][1].err = NewErr("title sanitization resulted in empty string")


(***************************************************************************)
(* C30                                                                     *)
(***************************************************************************)
\* {sanitized-title}.{ext} of the record of request r
PlainName(r) == sanitizeFileName(media[r].Title) \o MediaExt(media[r])

\* {sanitized-title}_{id8}.{ext} of the record of request r
DisambiguatedName(r) ==
    sanitizeFileName(media[r].Title) \o <<"_">> \o ShortId(media[r].randomName)
        \o MediaExt(media[r])

\* C30 as claimed: when the rename step finds that {sanitized-title}.{ext}
\* exists in the working directory it renames the file to
\* {sanitized-title}_{id8}.{ext}, and otherwise to {sanitized-title}.{ext};
\* on success Path and FileName both name the chosen target, and a successful
\* rename never replaces a file that already existed.
C30_RenameNeverReplaces ==
    [][\A r \in AllRequests :
           /\ (pc[r] = "rename" /\ pc'[r] = "rename2") =>
                  newName'[r] = IF Exists(files, Join(TmpDir, PlainName(r)))
                                THEN DisambiguatedName(r) ELSE PlainName(r)
           /\ (pc[r] = "rename2" /\ pc'[r] # "rename2"
                   /\ Exists(files, media[r].Path)) =>
                  /\ media'[r].Path = Join(TmpDir, newName[r])
                  /\ media'[r].FileName = newName[r]
                  /\ ~Exists(files, Join(TmpDir, newName[r]))]_vars



(***************************************************************************)
(* C31: the fetch argument list contains -f bv[filesize<=1700M]+ba[filesize *)
(* <=300M] and -S ext,res:720 if and only if the host is www.youtube.com,  *)
(* youtube.com or youtu.be, the request is not audio-only, the path does   *)
(* not contain "shorts" and simplified is false; the lists of both tiers   *)
(* carry --write-info-json, the -o template named after the request's id   *)
(* and the source URL.                                                     *)
(***************************************************************************)
\* option opt is followed by value val somewhere in args
HasOption(args, opt, val) ==
    \E i \in 1..(Len(args) - 1) : args[i] = opt /\ args[i + 1] = val

HasYouTubeFormatSort(args) ==
    /\ HasOption(args, <<"-f">>, <<"bv[filesize<=1700M]+ba[filesize<=300M]">>)
    /\ HasOption(args, <<"-S">>, <<"ext,res:720">>)

MentionsYouTubeFormatSort(args) ==
    \/ HasArg(args, <<"bv[filesize<=1700M]+ba[filesize<=300M]">>)
    \/ HasArg(args, <<"-S">>)
    \/ HasArg(args, <<"ext,res:720">>)

YouTubeFamily == {<<"www", ".", "youtube", ".", "com">>,
                  <<"youtube", ".", "com">>, <<"youtu", ".", "be">>}

EveryInvocationCarries(args) ==
    /\ HasArg(args, <<"--write-info-json">>)
    /\ HasOption(args, <<"-o">>,
                 <<"tmp", "/">> \o randomNameOf(1) \o <<".%(ext)s">>)
    /\ HasArg(args, URLString(cmd.url))

C31_FormatSortIffPlainYouTubeVideo ==
    LET eligible == /\ cmd.url.Host \in YouTubeFamily
                    /\ ~cmd.audioOnly
                    /\ \A i \in 1..Len(cmd.url.Path) : cmd.url.Path[i] # "shorts"
    IN  /\ cmd.full # <<>> =>
              /\ HasYouTubeFormatSort(cmd.full) <=> eligible
              /\ MentionsYouTubeFormatSort(cmd.full) <=> eligible
              /\ EveryInvocationCarries(cmd.full)
        /\ cmd.simple # <<>> =>
              /\ ~MentionsYouTubeFormatSort(cmd.simple)
              /\ EveryInvocationCarries(cmd.simple)

\* both lists of a plain YouTube video request are built: the tier-1 list
\* has the format and sort arguments
C31_Witness ==
    /\ cmd.built
    /\ cmd.url = YouTubeWatch
    /\ ~cmd.audioOnly
    /\ HasYouTubeFormatSort(cmd.full)


(***************************************************************************)
(* C32: Delete() succeeds exactly when a file exists at the record's Path  *)
(* and then that file is gone and no other file is touched; it fails when  *)
(* no file is there; a Delete() that follows a successful one fails; and   *)
(* Delete() changes no field of the record.                                *)
(***************************************************************************)
C32_DeleteRemovesFileAtPath ==
    [][\A r \in Requests :
          steps'[r] # steps[r] =>
              LET path == media[r].Path
                  call == steps'[r][Len(steps'[r])]
              IN  /\ call.step = "delete"
                  /\ call.ok <=> path \in DOMAIN files
                  /\ call.ok => call.err = NoErr
                  /\ ~call.ok => call.err # NoErr
                  /\ DOMAIN files' = DOMAIN files \ {path}
                  /\ \A p \in DOMAIN files' : files'[p] = files[p]
                  /\ (steps[r] # <<>> /\ steps[r][Len(steps[r])].ok) => ~call.ok
                  /\ media'[r] = media[r]]_vars

\* Delete() has succeeded and then failed on the same record
C32_Witness ==
    /\ pc[1] = "held"
    /\ Len(steps[1]) >= 2
    /\ steps[1][1].ok
    /\ ~steps[1][2].ok
    /\ media[1].Path \notin DOMAIN files


(***************************************************************************)
(* C33: a broadcast sends only to the users that are active when it        *)
(* starts; a send that fails with a Forbidden error saying that the bot    *)
(* was blocked, the user is deactivated or the bot cannot initiate the     *)
(* conversation makes the user inactive; an inactive user becomes active   *)
(* only by RegisterUser for the same chat id, which always makes the user  *)
(* active; a send failure of any other kind leaves the user active.        *)
(***************************************************************************)
ChatsOf(seq) == {seq[i] : i \in 1..Len(seq)}

IsActive(users, c) == c \in DOMAIN users /\ users[c].is_active = 1

\* the send errors that tell that the user is gone
BlockedOrDeactivated(err) ==
    /\ ~err.nil
    /\ err.forbidden
    /\ err.msg[Len(err.msg)] \in {"bot was blocked by the user",
                                  "user is deactivated",
                                  "bot can't initiate conversation with a user"}

TextsTo(chatID) ==
    {bot.outbox[i].Text : i \in {j \in 1..Len(bot.outbox) :
                                    bot.outbox[j].ChatID = chatID}}

AllTexts == {bot.outbox[i].Text : i \in 1..Len(bot.outbox)}

C34_StatsOnlyToAdmin ==
    bot.event = "stats" =>
        IF bot.adminUsername # "" /\ bot.username = bot.adminUsername
        THEN TextsTo(bot.chatID) = {"*Stats*"}
        ELSE /\ "*Stats*" \notin AllTexts
             /\ "You are not authorized to use this command" \in TextsTo(bot.chatID)


(***************************************************************************)
(* C37: on every successful return of DownloadMedia the record's FileName  *)
(* is the base name of its Path when the rename succeeded or a transcode   *)
(* ran, and is empty, with Path the id-based download path, when neither   *)
(* did. As claimed: it is never empty and always the base name of Path.    *)
(***************************************************************************)
\* filepath.Base of a path of the working directory
BaseName(path) ==
    LET slashes == {i \in 1..Len(path) : path[i] = "/"}
    IN  IF slashes = {} THEN path
        ELSE LET last == CHOOSE i \in slashes : \A j \in slashes : j <= i
             IN  SubSeq(path, last + 1, Len(path))

\* a step of that name has succeeded for request r
Succeeded(r, name) ==
    \E i \in 1..Len(steps[r]) : steps[r][i].step = name /\ steps[r][i].ok

C37_FileNameIsBaseOfPathOrEmpty ==
    \A r \in Requests :
        result[r].ret = "ok" =>
            IF Succeeded(r, "rename") \/ Succeeded(r, "encode")
            THEN /\ media[r].FileName # <<>>
                 /\ media[r].FileName = BaseName(media[r].Path)
            ELSE /\ media[r].FileName = <<>>
                 /\ media[r].Path = DownloadPath(media[r])

\* as claimed
C37_FileNameIsBaseOfPath ==
    \A r \in Requests :
        result[r].ret = "ok" =>
            /\ media[r].FileName # <<>>
            /\ media[r].FileName = BaseName(media[r].Path)

\* DownloadMedia has returned a record whose file was renamed and then
\* transcoded
C37_Witness ==
    /\ result[1].ret = "ok"
    /\ Succeeded(1, "rename")
    /\ Succeeded(1, "encode")
    /\ media[1].FileName = BaseName(media[1].Path)
    /\ media[1].FileName # <<>>


(***************************************************************************)
(* C35: within one request the steps run in the order fetch, sidecar       *)
(* ingestion, rename, probe/select, plan, encode: a step never follows a   *)
(* step that comes later in this order, the ingestion runs only after a    *)
(* fetch attempt that succeeded, rename, probe and encode run only after   *)
(* an ingestion that succeeded, and apart from the second fetch attempt    *)
(* no step of the canonical pipeline runs twice.                           *)
(***************************************************************************)
\* the place of a step in the order of the pipeline
Rank(name) ==
    CASE name = "fetch" -> 1
      [] name = "ingest" -> 2
      [] name = "rename" -> 3
      [] name \in {"stat", "probe"} -> 4
      [] name = "plan" -> 5
      [] name = "encode" -> 6
      [] name = "delete" -> 7

\* a step of that name has succeeded before step number i of request r
SucceededBefore(r, name, i) ==
    \E j \in 1..(i - 1) : steps[r][j].step = name /\ steps[r][j].ok

C35_StepsRunInPipelineOrder ==
    \A r \in Requests :
        LET h == steps[r]
        IN  /\ \A i \in 1..(Len(h) - 1) : Rank(h[i].step) <= Rank(h[i + 1].step)
            /\ \A i, j \in 1..Len(h) :
                  (i < j /\ h[i].step = h[j].step) =>
                      h[i].step = "fetch" /\ ~h[i].ok
            /\ Len(Fetches(r)) <= 2
            /\ \A i \in 1..Len(h) :
                  /\ h[i].step = "ingest" => SucceededBefore(r, "fetch", i)
                  /\ h[i].step \in {"rename", "stat", "probe", "plan", "encode"} =>
                         SucceededBefore(r, "ingest", i)
                  /\ h[i].step = "plan" => SucceededBefore(r, "probe", i)
                  /\ h[i].step = "encode" => SucceededBefore(r, "plan", i)

\* a request has gone through every step, the second fetch attempt included
C35_Witness ==
    /\ Len(Fetches(1)) = 2
    /\ Succeeded(1, "ingest")
    /\ Succeeded(1, "rename")
    /\ Succeeded(1, "probe")
    /\ Succeeded(1, "plan")
    /\ Succeeded(1, "encode")


(***************************************************************************)
(* C36: the video codec the planner is given is the codec tag of the       *)
(* selected video stream when the probe report has a video stream and the  *)
(* sidecar's vcodec otherwise; the audio codec is the tag of the selected  *)
(* audio stream when the report has an audio stream and the sidecar's      *)
(* acodec otherwise; each falls back on its own.                           *)
(***************************************************************************)
\* the codec tags of the streams of a kind in the report
TagsOf(kind) == {probe.Streams[i].CodecName : i \in PositionsOf(kind)}

C36_CodecInputsFallBackSeparately ==
    pc[1] = "analyzed" =>
        /\ IF PositionsOf("video") # {}
           THEN /\ probe.video # NoStream
                /\ probe.video.CodecType = "video"
                /\ analysis[1].OriginalVideoCodec = probe.video.CodecName
                /\ analysis[1].OriginalVideoCodec \in TagsOf("video")
           ELSE analysis[1].OriginalVideoCodec = media[1].VCodec
        /\ IF PositionsOf("audio") # {}
           THEN /\ probe.audio # NoStream
                /\ probe.audio.CodecType = "audio"
                /\ analysis[1].OriginalAudioCodec = probe.audio.CodecName
                /\ analysis[1].OriginalAudioCodec \in TagsOf("audio")
           ELSE analysis[1].OriginalAudioCodec = media[1].ACodec

\* a report with an audio stream only: video from the sidecar, audio from the
\* probe
C36_Witness ==
    /\ pc[1] = "analyzed"
    /\ PositionsOf("video") = {}
    /\ PositionsOf("audio") # {}
    /\ media[1].VCodec = <<"vp09", ".00.40.08">>
    /\ media[1].ACodec = <<"opus">>
    /\ analysis[1].OriginalVideoCodec = <<"vp09", ".00.40.08">>
    /\ analysis[1].OriginalAudioCodec = <<"aac">>


(***************************************************************************)
(* C38: every non-empty result of sanitizeFileName, the truncated ones     *)
(* included, neither begins nor ends with a space or a period and has no   *)
(* two spaces in a row.                                                    *)
(***************************************************************************)
C38_OutputHasCleanEnds ==
    (pc[1] = "sanitized" /\ newName[1] # <<>>) =>
        LET s == newName[1]
        IN  /\ s[1] \notin {" ", "."}
            /\ s[Len(s)] \notin {" ", "."}
            /\ \A i \in 1..(Len(s) - 1) : ~(s[i] = " " /\ s[i + 1] = " ")


(***************************************************************************)
(* C39: sanitizeFileName is idempotent: applied to a non-empty result of   *)
(* its own it returns that result.                                         *)
(***************************************************************************)
C39_SanitizeIsIdempotent ==
    (pc[1] = "sanitized" /\ newName[1] # <<>>) =>
        sanitizeFileName(newName[1]) = newName[1]

(***************************************************************************)
(* C40: UnmarshalJSON accepts no part with a leading '+' or '-', and every *)
(* duration it decodes is a non-negative number of seconds.                *)
(***************************************************************************)
C40_NoSignedParts ==
    (pc[1] = "decoded" /\ result[1].ret = "ok") =>
        /\ \A i \in 1..Len(text) : text[i] \notin {"+", "-"}
        /\ media[1].Duration >= 0

====
